---------------------------- MODULE Spec2Model ----------------------------
(***************************************************************************)
(* A model of the event-driven trading pipeline: the EventBus (one FIFO    *)
(* queue, synchronous dispatch), and the stages registered on it           *)
(* (SignalGenerator, MACrossoverStrategy, RSIStrategy, OrderManager,       *)
(* RiskManager, ExecutionSimulator, PortfolioTracker).                     *)
(*                                                                         *)
(* Numbers.  The program computes with binary floats and rounds what it    *)
(* publishes to 4 decimals.  The model counts money in units of 10^-4      *)
(* ("ticks", an integer) and keeps the unrounded quantities (the average   *)
(* cost, the realized P&L) as exact fractions <<n, d>>; round(x, 4) is     *)
(* rounding a fraction of ticks to the nearest integer, ties to even.      *)
(* Timestamps are the index of the bar, order ids and fill ids (uuid4 in   *)
(* the program) are fresh numbers.                                         *)
(***************************************************************************)
EXTENDS Integers, Sequences, FiniteSets, TLC

VARIABLES
    queue,       \* EventBus._queue: the events published and not yet dispatched
    handlers,    \* EventBus._handlers: kind -> handlers in subscription order
    loop,        \* the position of EventBus.run: active, processed, max_events
    published,   \* history: every event ever published, in publish order
    dispatched,  \* history: every event dequeued by run(), in dispatch order
    phase,       \* the caller of the bus: "feed" (publishing), "run", "done"
    om,          \* OrderManager: quantity, _last_price, the next fresh order id
    risk,        \* RiskManager: limits, _positions, _peak_equity, _current_equity
    ex,          \* ExecutionSimulator: slippage_bps, commission_per_share, next fill id
    pt,          \* PortfolioTracker: cash, _positions, _avg_cost, _realized_pnl, _last_price
    metrics,     \* PerformanceMetrics: _equity_curve, _peak_equity, _max_drawdown_pct,
                 \* _trades, _last_avg_cost
    delivered,   \* history: every call handler(event) of run(), in call order
    subscriptions, \* history: every call subscribe(kind, handler), in call order
    strategy,    \* the signal strategy: its parameters and its per-symbol state
    draws        \* history: the draws of the random generators, one record a dispatch

vars == <<queue, handlers, loop, published, dispatched, phase, om, risk, ex, pt,
          metrics, delivered, subscriptions, strategy, draws>>

----------------------------------------------------------------------------
(* Bounds of the model. *)

\* The most bars a feed publishes in the batch pipeline.
MaxBars == 2

Symbols == {"AAPL", "MSFT"}

\* Closing prices of the bars, in ticks (1.0000 and 2.0000).
Closes == {10000, 20000}

\* The draws of random.uniform(-1.0, 1.0) the model follows.
Draws == {-1, 1}

\* The draw of round(random.random(), 4) the model follows, in units of 10^-4.
Strengths == {2500}

----------------------------------------------------------------------------
(* Python values: dicts with .get, exact fractions, round(). *)

Abs(x) == IF x < 0 THEN -x ELSE x

\* dict.get(k, default)
Get(d, k, default) == IF k \in DOMAIN d THEN d[k] ELSE default

\* d[k] = v
Put(d, k, v) == [x \in (DOMAIN d) \cup {k} |-> IF x = k THEN v ELSE d[x]]

EmptyDict == [x \in {} |-> 0]

RECURSIVE GCD(_, _)
GCD(a, b) == IF b = 0 THEN a ELSE GCD(b, a % b)

\* The fraction n/d in lowest terms with a positive denominator.
Frac(n, d) ==
    LET s == IF d < 0 THEN -1 ELSE 1
        g == GCD(Abs(n), Abs(d))
    IN  <<(s * n) \div g, (s * d) \div g>>

FInt(i) == <<i, 1>>
FAdd(a, b) == Frac(a[1] * b[2] + b[1] * a[2], a[2] * b[2])
FSub(a, b) == Frac(a[1] * b[2] - b[1] * a[2], a[2] * b[2])
FMul(a, b) == Frac(a[1] * b[1], a[2] * b[2])
FDiv(a, b) == Frac(a[1] * b[2], a[2] * b[1])
FLess(a, b) == a[1] * b[2] < b[1] * a[2]

\* round(x, 4) of a fraction of ticks: the nearest integer, ties to even.
Round4(a) ==
    LET fl == a[1] \div a[2]
        r2 == 2 * (a[1] - fl * a[2])
    IN  IF r2 < a[2] THEN fl
        ELSE IF r2 > a[2] THEN fl + 1
        ELSE IF fl % 2 = 0 THEN fl ELSE fl + 1

\* 10^4: the scale of round(x, 4), and of basis points.
Scale == 10000

----------------------------------------------------------------------------
(* The events (trading/events/types.py). *)

Directions == {"BUY", "SELL", "HOLD"}

MarketDataEvent(sym, ts, close) ==
    [kind |-> "MarketDataEvent", symbol |-> sym, timestamp |-> ts, close |-> close]

SignalEvent(sym, ts, dir, strength) ==
    [kind |-> "SignalEvent", symbol |-> sym, timestamp |-> ts,
     direction |-> dir, strength |-> strength]

OrderEvent(id, sym, ts, type, dir, qty, price) ==
    [kind |-> "OrderEvent", order_id |-> id, symbol |-> sym, timestamp |-> ts,
     order_type |-> type, direction |-> dir, quantity |-> qty, price |-> price]

ApprovedOrderEvent(id, sym, ts, type, dir, qty, price) ==
    [kind |-> "ApprovedOrderEvent", order_id |-> id, symbol |-> sym, timestamp |-> ts,
     order_type |-> type, direction |-> dir, quantity |-> qty, price |-> price]

RiskVetoEvent(id, sym, ts, reason) ==
    [kind |-> "RiskVetoEvent", order_id |-> id, symbol |-> sym, timestamp |-> ts,
     reason |-> reason]

FillEvent(fid, id, sym, ts, dir, qty, fill_price, commission) ==
    [kind |-> "FillEvent", fill_id |-> fid, order_id |-> id, symbol |-> sym,
     timestamp |-> ts, direction |-> dir, quantity |-> qty,
     fill_price |-> fill_price, commission |-> commission]

PortfolioUpdateEvent(sym, ts, position, avg_cost, realized, unrealized, cash, equity) ==
    [kind |-> "PortfolioUpdateEvent", symbol |-> sym, timestamp |-> ts,
     position |-> position, avg_cost |-> avg_cost, realized_pnl |-> realized,
     unrealized_pnl |-> unrealized, cash |-> cash, equity |-> equity]

Kinds == {"MarketDataEvent", "SignalEvent", "OrderEvent", "ApprovedOrderEvent",
          "RiskVetoEvent", "FillEvent", "PortfolioUpdateEvent"}

----------------------------------------------------------------------------
(* The EventBus (trading/bus/event_bus.py).  A handler works on the record *)
(* w of everything a handler can reach: the queue and the components.      *)

World == [queue |-> queue, published |-> published,
          om |-> om, risk |-> risk, ex |-> ex, pt |-> pt, metrics |-> metrics,
          strategy |-> strategy, delivered |-> delivered, at |-> Len(dispatched) + 1, raised |-> FALSE]

\* A mutant of QueuePut: the event goes to the head of the queue.
QueuePutAtHead(q, e) == <<e>> \o q

\* queue.Queue.put: the event goes to the tail.
QueuePut(q, e) == Append(q, e)

\* A mutant of QueueGet: the newest event is taken.
QueueGetNewest(q) == <<q[Len(q)], SubSeq(q, 1, Len(q) - 1)>>

\* queue.Queue.get_nowait: the oldest event is taken; <<event, rest>>.
QueueGet(q) == <<Head(q), Tail(q)>>

\* EventBus.publish
publish(w, e) ==
    [w EXCEPT !.queue = QueuePut(@, e), !.published = Append(@, e)]

\* EventBus.subscribe, for each (kind, handler) of regs in order: the handler
\* goes to the end of the list of its kind (a defaultdict: a list is there
\* for every kind).
RECURSIVE subscribe(_, _)
subscribe(hs, regs) ==
    IF regs = <<>> THEN hs
    ELSE subscribe(Put(hs, regs[1][1], Append(Get(hs, regs[1][1], <<>>), regs[1][2])),
                   Tail(regs))

\* EventBus.__init__: defaultdict(list), no kind has a list yet.
NoHandlers == [k \in {} |-> <<>>]

----------------------------------------------------------------------------
(* SignalGenerator (trading/signal/generator.py). *)

\* SignalGenerator._on_market_data: rnd holds the draws of the rng.
SignalGenerator_on_market_data(w, e, rnd) ==
    publish(w, SignalEvent(e.symbol, e.timestamp, rnd.direction, rnd.strength))

\* SignalGenerator.__init__: no state besides the rng.
SignalGenerator_init == [name |-> "SignalGenerator"]

\* A bus on which no strategy is registered.
NoStrategy == [name |-> "none"]

----------------------------------------------------------------------------
(* The strategies with a window of closes per symbol                       *)
(* (trading/signal/ma_crossover.py, trading/signal/rsi.py).  The moving    *)
(* averages and the RSI are exact fractions; the strength of their signals *)
(* is round(x, 6), counted in units of 10^-6.                              *)

\* None, for dict.get(k) of a missing key.
None == <<>>

\* 10^6: the scale of round(x, 6).
Micro == 1000000

FAbs(a) == <<Abs(a[1]), a[2]>>
FLeq(a, b) == ~FLess(b, a)
FMin(a, b) == IF FLess(b, a) THEN b ELSE a

\* round(x, 6) of a fraction, in units of 10^-6.
Round6(a) == Round4(FMul(a, FInt(Micro)))

\* sum(xs)
RECURSIVE SeqSum(_)
SeqSum(xs) == IF xs = <<>> THEN 0 ELSE Head(xs) + SeqSum(Tail(xs))

\* list(xs)[-n:]
LastN(xs, n) == SubSeq(xs, IF Len(xs) > n THEN Len(xs) - n + 1 ELSE 1, Len(xs))

\* deque(maxlen=maxlen).append(x): a full deque drops its oldest element.
DequeAppend(d, x, maxlen) ==
    IF Len(d) < maxlen THEN Append(d, x) ELSE Append(Tail(d), x)

\* A mutant of StateKey: one window is shared by all symbols.
StateKeyShared(sym) == "*"

\* sym = event.symbol: the key of the per-symbol state of a strategy.
StateKey(sym) == sym

\* MACrossoverStrategy.__init__ (fast < slow, or it raises ValueError).
MACrossoverStrategy_init(fast, slow) ==
    [name |-> "MACrossoverStrategy", fast |-> fast, slow |-> slow,
     prices |-> EmptyDict, prev_fast |-> EmptyDict, prev_slow |-> EmptyDict]

\* A mutant of MADirection: a crossover needs the previous fast SMA strictly
\* on the other side.
MADirectionStrict(prev_fast, prev_slow, sma_fast, sma_slow) ==
    IF prev_fast # None /\ prev_slow # None
    THEN IF FLess(prev_fast, prev_slow) /\ FLess(sma_slow, sma_fast) THEN "BUY"
         ELSE IF FLess(prev_slow, prev_fast) /\ FLess(sma_fast, sma_slow) THEN "SELL"
         ELSE "HOLD"
    ELSE "HOLD"

\* A mutant of MADirection: without a previous SMA pair the current pair decides.
MADirectionNoPrev(prev_fast, prev_slow, sma_fast, sma_slow) ==
    IF prev_fast # None /\ prev_slow # None
    THEN IF FLeq(prev_fast, prev_slow) /\ FLess(sma_slow, sma_fast) THEN "BUY"
         ELSE IF FLeq(prev_slow, prev_fast) /\ FLess(sma_fast, sma_slow) THEN "SELL"
         ELSE "HOLD"
    ELSE IF FLess(sma_slow, sma_fast) THEN "BUY"
         ELSE IF FLess(sma_fast, sma_slow) THEN "SELL"
         ELSE "HOLD"

\* The crossover detection of MACrossoverStrategy._on_market_data.
MADirection(prev_fast, prev_slow, sma_fast, sma_slow) ==
    IF prev_fast # None /\ prev_slow # None
    THEN IF FLeq(prev_fast, prev_slow) /\ FLess(sma_slow, sma_fast) THEN "BUY"
         ELSE IF FLeq(prev_slow, prev_fast) /\ FLess(sma_fast, sma_slow) THEN "SELL"
         ELSE "HOLD"
    ELSE "HOLD"

\* A mutant of MACrossoverStrategy_on_market_data: a bar that leaves the
\* window short of slow closes is stored without a signal.
MACrossoverStrategy_on_market_data_SilentWarmUp(w, e) ==
    LET st == w.strategy
        sym == StateKey(e.symbol)
        prices == DequeAppend(Get(st.prices, sym, <<>>), e.close, st.slow)
        st1 == [st EXCEPT !.prices = Put(@, sym, prices)]
    IN  IF Len(prices) < st.slow
        THEN [w EXCEPT !.strategy = st1]
        ELSE LET sma_fast == Frac(SeqSum(LastN(prices, st.fast)), st.fast)
                 sma_slow == Frac(SeqSum(prices), st.slow)
                 strength == IF sma_slow # FInt(0)
                             THEN Round6(FDiv(FAbs(FSub(sma_fast, sma_slow)), sma_slow))
                             ELSE 0
                 direction == MADirection(Get(st.prev_fast, sym, None),
                                          Get(st.prev_slow, sym, None),
                                          sma_fast, sma_slow)
             IN  publish([w EXCEPT !.strategy =
                             [st1 EXCEPT !.prev_fast = Put(@, sym, sma_fast),
                                         !.prev_slow = Put(@, sym, sma_slow)]],
                         SignalEvent(e.symbol, e.timestamp, direction, strength))

\* MACrossoverStrategy._on_market_data
MACrossoverStrategy_on_market_data(w, e) ==
    LET st == w.strategy
        sym == StateKey(e.symbol)
        prices == DequeAppend(Get(st.prices, sym, <<>>), e.close, st.slow)
        st1 == [st EXCEPT !.prices = Put(@, sym, prices)]
    IN  IF Len(prices) < st.slow
        THEN publish([w EXCEPT !.strategy = st1],
                     SignalEvent(e.symbol, e.timestamp, "HOLD", 0))
        ELSE LET sma_fast == Frac(SeqSum(LastN(prices, st.fast)), st.fast)
                 sma_slow == Frac(SeqSum(prices), st.slow)
                 strength == IF sma_slow # FInt(0)
                             THEN Round6(FDiv(FAbs(FSub(sma_fast, sma_slow)), sma_slow))
                             ELSE 0
                 direction == MADirection(Get(st.prev_fast, sym, None),
                                          Get(st.prev_slow, sym, None),
                                          sma_fast, sma_slow)
             IN  publish([w EXCEPT !.strategy =
                             [st1 EXCEPT !.prev_fast = Put(@, sym, sma_fast),
                                         !.prev_slow = Put(@, sym, sma_slow)]],
                         SignalEvent(e.symbol, e.timestamp, direction, strength))

\* RSIStrategy.__init__ (period >= 2 and oversold < overbought, or it raises
\* ValueError).
RSIStrategy_init(period, overbought, oversold) ==
    [name |-> "RSIStrategy", period |-> period,
     overbought |-> overbought, oversold |-> oversold,
     prices |-> EmptyDict, prev_rsi |-> EmptyDict]

\* changes = [price_list[i] - price_list[i - 1] for i in range(1, len(price_list))]
Changes(price_list) ==
    [i \in 1..(Len(price_list) - 1) |-> price_list[i + 1] - price_list[i]]

\* [abs(c) for c in cs]
AbsAll(cs) == [i \in DOMAIN cs |-> Abs(cs[i])]

\* A mutant of RSIValue: the gains are averaged over the number of gains and
\* the losses over the number of losses.
RSIValueMeanOfPresent(changes, period) ==
    LET gains == SelectSeq(changes, LAMBDA c : c > 0)
        losses == AbsAll(SelectSeq(changes, LAMBDA c : c < 0))
        avg_gain == IF gains # <<>> THEN Frac(SeqSum(gains), Len(gains)) ELSE FInt(0)
        avg_loss == IF losses # <<>> THEN Frac(SeqSum(losses), Len(losses)) ELSE FInt(0)
    IN  IF avg_loss = FInt(0) THEN FInt(100)
        ELSE LET rs == FDiv(avg_gain, avg_loss)
             IN  FSub(FInt(100), FDiv(FInt(100), FAdd(FInt(1), rs)))

\* The RSI of the changes of a full window: both sums are divided by period.
RSIValue(changes, period) ==
    LET gains == SelectSeq(changes, LAMBDA c : c > 0)
        losses == AbsAll(SelectSeq(changes, LAMBDA c : c < 0))
        avg_gain == IF gains # <<>> THEN Frac(SeqSum(gains), period) ELSE FInt(0)
        avg_loss == IF losses # <<>> THEN Frac(SeqSum(losses), period) ELSE FInt(0)
    IN  IF avg_loss = FInt(0) THEN FInt(100)
        ELSE LET rs == FDiv(avg_gain, avg_loss)
             IN  FSub(FInt(100), FDiv(FInt(100), FAdd(FInt(1), rs)))

\* A mutant of RSIDirection: without a previous RSI the current RSI decides.
RSIDirectionNoPrev(prev_rsi, rsi, oversold, overbought) ==
    IF prev_rsi # None
    THEN IF FLeq(FInt(oversold), prev_rsi) /\ FLess(rsi, FInt(oversold)) THEN "BUY"
         ELSE IF FLeq(prev_rsi, FInt(overbought)) /\ FLess(FInt(overbought), rsi)
              THEN "SELL"
         ELSE "HOLD"
    ELSE IF FLess(rsi, FInt(oversold)) THEN "BUY"
         ELSE IF FLess(FInt(overbought), rsi) THEN "SELL"
         ELSE "HOLD"

\* The zone-crossing detection of RSIStrategy._on_market_data.
RSIDirection(prev_rsi, rsi, oversold, overbought) ==
    IF prev_rsi # None
    THEN IF FLeq(FInt(oversold), prev_rsi) /\ FLess(rsi, FInt(oversold)) THEN "BUY"
         ELSE IF FLeq(prev_rsi, FInt(overbought)) /\ FLess(FInt(overbought), rsi)
              THEN "SELL"
         ELSE "HOLD"
    ELSE "HOLD"

\* RSIStrategy._on_market_data
RSIStrategy_on_market_data(w, e) ==
    LET st == w.strategy
        sym == StateKey(e.symbol)
        prices == DequeAppend(Get(st.prices, sym, <<>>), e.close, st.period + 1)
        st1 == [st EXCEPT !.prices = Put(@, sym, prices)]
    IN  IF Len(prices) < st.period + 1
        THEN publish([w EXCEPT !.strategy = st1],
                     SignalEvent(e.symbol, e.timestamp, "HOLD", 0))
        ELSE LET rsi == RSIValue(Changes(prices), st.period)
                 strength == Round6(FMin(FDiv(FAbs(FSub(rsi, FInt(50))), FInt(50)),
                                         FInt(1)))
                 direction == RSIDirection(Get(st.prev_rsi, sym, None), rsi,
                                           st.oversold, st.overbought)
             IN  publish([w EXCEPT !.strategy =
                             [st1 EXCEPT !.prev_rsi = Put(@, sym, rsi)]],
                         SignalEvent(e.symbol, e.timestamp, direction, strength))

----------------------------------------------------------------------------
(* OrderManager (trading/order_manager/manager.py). *)

\* A mutant of OrderManager_on_market_data: the first close of a symbol is kept.
OrderManager_on_market_data_KeepFirst(w, e) ==
    [w EXCEPT !.om.last_price = IF e.symbol \in DOMAIN @ THEN @ ELSE Put(@, e.symbol, e.close)]

\* A mutant of OrderManager_on_market_data: the OrderManager also answers a
\* bar with a HOLD signal of its own.
OrderManager_on_market_data_Signals(w, e) ==
    publish([w EXCEPT !.om.last_price = Put(@, e.symbol, e.close)],
            SignalEvent(e.symbol, e.timestamp, "HOLD", 0))

OrderManager_on_market_data(w, e) ==
    [w EXCEPT !.om.last_price = Put(@, e.symbol, e.close)]

\* A mutant of OrderManager_on_signal: the order id is not a fresh one.
OrderManager_on_signal_ReusedId(w, e) ==
    IF e.direction = "HOLD" THEN w
    ELSE LET ref_price == Get(w.om.last_price, e.symbol, 0)
         IN  publish(w, OrderEvent(w.om.next_id, e.symbol, e.timestamp, "MARKET",
                                   e.direction, w.om.quantity, ref_price))

\* A mutant of OrderManager_on_signal: HOLD is not discarded.
OrderManager_on_signal_NoHoldCheck(w, e) ==
    publish([w EXCEPT !.om.next_id = @ + 1],
            OrderEvent(w.om.next_id, e.symbol, e.timestamp, "MARKET",
                       e.direction, w.om.quantity, Get(w.om.last_price, e.symbol, 0)))

OrderManager_on_signal(w, e) ==
    IF e.direction = "HOLD" THEN w
    ELSE LET ref_price == Get(w.om.last_price, e.symbol, 0)
         IN  publish([w EXCEPT !.om.next_id = @ + 1],
                     OrderEvent(w.om.next_id, e.symbol, e.timestamp, "MARKET",
                                e.direction, w.om.quantity, ref_price))

----------------------------------------------------------------------------
(* RiskManager (trading/risk/manager.py). *)

\* A mutant of RiskManager_on_portfolio_update: the current equity only
\* ever rises, as the peak does.
RiskManager_on_portfolio_update_HighWaterOnly(w, e) ==
    [w EXCEPT !.risk.current_equity = IF e.equity > @ THEN e.equity ELSE @,
              !.risk.peak_equity = IF e.equity > @ THEN e.equity ELSE @,
              !.risk.positions = Put(@, e.symbol, e.position)]

\* A mutant of RiskManager_on_portfolio_update: the equity is taken from the
\* update, the position is not.
RiskManager_on_portfolio_update_EquityOnly(w, e) ==
    [w EXCEPT !.risk.current_equity = e.equity,
              !.risk.peak_equity = IF e.equity > @ THEN e.equity ELSE @]

RiskManager_on_portfolio_update(w, e) ==
    [w EXCEPT !.risk.current_equity = e.equity,
              !.risk.peak_equity = IF e.equity > @ THEN e.equity ELSE @,
              !.risk.positions = Put(@, e.symbol, e.position)]

\* (peak - current) / peak * 100, as a fraction; peak is not 0.
DrawdownPct(peak, current) == FMul(Frac(peak - current, peak), FInt(100))

\* A mutant of DrawdownExceeded: the comparison with the cap is not strict.
DrawdownExceededNotStrict(r) ==
    /\ r.peak_equity > 0
    /\ ~FLess(DrawdownPct(r.peak_equity, r.current_equity), FInt(r.max_drawdown_pct))

\* Check 2 of _on_order: the drawdown from the peak is above the cap.
DrawdownExceeded(r) ==
    /\ r.peak_equity > 0
    /\ FLess(FInt(r.max_drawdown_pct), DrawdownPct(r.peak_equity, r.current_equity))

\* A mutant of PositionLimitExceeded: a position at the limit is refused too.
PositionLimitExceededNotStrict(r, new_position) ==
    Abs(new_position) >= r.max_position

\* Check 1 of _on_order: the position the order would lead to is above the limit.
PositionLimitExceeded(r, new_position) ==
    Abs(new_position) > r.max_position

\* A mutant of RiskManager_on_order: the drawdown is checked before the position.
RiskManager_on_order_DrawdownFirst(w, e) ==
    LET signed_qty == IF e.direction = "BUY" THEN e.quantity ELSE -e.quantity
        current == Get(w.risk.positions, e.symbol, 0)
        new_position == current + signed_qty
    IN  IF DrawdownExceeded(w.risk)
        THEN publish(w, RiskVetoEvent(e.order_id, e.symbol, e.timestamp,
                 [text |-> "max drawdown exceeded",
                  value |-> Round4(FMul(DrawdownPct(w.risk.peak_equity,
                                                    w.risk.current_equity), FInt(100))),
                  cap |-> w.risk.max_drawdown_pct]))
        ELSE IF PositionLimitExceeded(w.risk, new_position)
        THEN publish(w, RiskVetoEvent(e.order_id, e.symbol, e.timestamp,
                 [text |-> "position limit exceeded", value |-> new_position,
                  cap |-> w.risk.max_position]))
        ELSE publish(w, ApprovedOrderEvent(e.order_id, e.symbol, e.timestamp,
                 e.order_type, e.direction, e.quantity, e.price))

\* A mutant of RiskManager_on_order: no return after the position-limit veto.
RiskManager_on_order_NoReturn(w, e) ==
    LET signed_qty == IF e.direction = "BUY" THEN e.quantity ELSE -e.quantity
        current == Get(w.risk.positions, e.symbol, 0)
        new_position == current + signed_qty
        approved == ApprovedOrderEvent(e.order_id, e.symbol, e.timestamp, e.order_type,
                                       e.direction, e.quantity, e.price)
        veto == RiskVetoEvent(e.order_id, e.symbol, e.timestamp,
                    [text |-> "position limit exceeded", value |-> new_position,
                     cap |-> w.risk.max_position])
    IN  IF PositionLimitExceeded(w.risk, new_position)
        THEN publish(publish(w, veto), approved)
        ELSE publish(w, approved)

\* A mutant of RiskManager_on_order: the approved order carries no price.
RiskManager_on_order_ApprovedWithoutPrice(w, e) ==
    LET signed_qty == IF e.direction = "BUY" THEN e.quantity ELSE -e.quantity
        current == Get(w.risk.positions, e.symbol, 0)
        new_position == current + signed_qty
    IN  IF PositionLimitExceeded(w.risk, new_position)
        THEN publish(w, RiskVetoEvent(e.order_id, e.symbol, e.timestamp,
                 [text |-> "position limit exceeded", value |-> new_position,
                  cap |-> w.risk.max_position]))
        ELSE IF DrawdownExceeded(w.risk)
        THEN publish(w, RiskVetoEvent(e.order_id, e.symbol, e.timestamp,
                 [text |-> "max drawdown exceeded",
                  value |-> Round4(FMul(DrawdownPct(w.risk.peak_equity,
                                                    w.risk.current_equity), FInt(100))),
                  cap |-> w.risk.max_drawdown_pct]))
        ELSE publish(w, ApprovedOrderEvent(e.order_id, e.symbol, e.timestamp,
                 e.order_type, e.direction, e.quantity, 0))

RiskManager_on_order(w, e) ==
    LET signed_qty == IF e.direction = "BUY" THEN e.quantity ELSE -e.quantity
        current == Get(w.risk.positions, e.symbol, 0)
        new_position == current + signed_qty
    IN  IF PositionLimitExceeded(w.risk, new_position)
        THEN publish(w, RiskVetoEvent(e.order_id, e.symbol, e.timestamp,
                 [text |-> "position limit exceeded", value |-> new_position,
                  cap |-> w.risk.max_position]))
        ELSE IF DrawdownExceeded(w.risk)
        THEN publish(w, RiskVetoEvent(e.order_id, e.symbol, e.timestamp,
                 [text |-> "max drawdown exceeded",
                  value |-> Round4(FMul(DrawdownPct(w.risk.peak_equity,
                                                    w.risk.current_equity), FInt(100))),
                  cap |-> w.risk.max_drawdown_pct]))
        ELSE publish(w, ApprovedOrderEvent(e.order_id, e.symbol, e.timestamp,
                 e.order_type, e.direction, e.quantity, e.price))

----------------------------------------------------------------------------
(* ExecutionSimulator (trading/execution/simulator.py). *)

\* The reference price of an order that carries none: 150.0.
FallbackPrice == 1500000

\* A mutant of RefPrice: the price of the order is taken as it is.
RefPriceNoFallback(price) == price

\* ref_price = event.price if event.price > 0.0 else 150.0
RefPrice(price) == IF price > 0 THEN price ELSE FallbackPrice

\* A mutant of ExecutionSimulator_on_order: the fill id is not a fresh one.
ExecutionSimulator_on_order_StaleFillId(w, e, rnd) ==
    LET ref_price == RefPrice(e.price)
        slip == FMul(FMul(FInt(ref_price), Frac(w.ex.slippage_bps, Scale)), FInt(rnd.u))
        fill_price == Round4(FAdd(FInt(ref_price), slip))
        commission == Round4(FMul(FInt(e.quantity), FInt(w.ex.commission_per_share)))
    IN  publish(w, FillEvent(w.ex.next_id, e.order_id, e.symbol, e.timestamp,
                             e.direction, e.quantity, fill_price, commission))

\* ExecutionSimulator._on_order: rnd.u is the draw of uniform(-1.0, 1.0).
ExecutionSimulator_on_order(w, e, rnd) ==
    LET ref_price == RefPrice(e.price)
        slip == FMul(FMul(FInt(ref_price), Frac(w.ex.slippage_bps, Scale)), FInt(rnd.u))
        fill_price == Round4(FAdd(FInt(ref_price), slip))
        commission == Round4(FMul(FInt(e.quantity), FInt(w.ex.commission_per_share)))
    IN  publish([w EXCEPT !.ex.next_id = @ + 1],
                FillEvent(w.ex.next_id, e.order_id, e.symbol, e.timestamp,
                          e.direction, e.quantity, fill_price, commission))

----------------------------------------------------------------------------
(* PortfolioTracker (trading/portfolio/tracker.py). *)

\* A mutant of PortfolioTracker_on_market_data: an update is published for a bar too.
PortfolioTracker_on_market_data_Publishes(w, e) ==
    publish([w EXCEPT !.pt.last_price = Put(@, e.symbol, FInt(e.close))],
            PortfolioUpdateEvent(e.symbol, e.timestamp, Get(w.pt.positions, e.symbol, 0),
                                 0, 0, 0, w.pt.cash, w.pt.cash))

PortfolioTracker_on_market_data(w, e) ==
    [w EXCEPT !.pt.last_price = Put(@, e.symbol, FInt(e.close))]

\* The sum of f[s] over the symbols of S.
RECURSIVE SumOver(_, _)
SumOver(S, f) ==
    IF S = {} THEN FInt(0)
    ELSE LET s == CHOOSE x \in S : TRUE
         IN  FAdd(f[s], SumOver(S \ {s}, f))

\* A mutant of FillPosition: a SELL adds to the position as a BUY does.
FillPositionSellAdds(pos, direction, qty) == pos + qty

\* The position after a fill: pos += qty on a BUY, pos -= qty on a SELL.
FillPosition(pos, direction, qty) ==
    IF direction = "BUY" THEN pos + qty ELSE pos - qty

\* A mutant of FillAvgCost: the average cost is kept when a SELL closes the position.
FillAvgCostNoReset(pos0, avg0, direction, qty, price) ==
    LET pos == FillPosition(pos0, direction, qty)
        total_cost == FAdd(FMul(avg0, FInt(pos0)), FMul(price, FInt(qty)))
    IN  IF direction = "BUY"
        THEN (IF pos # 0 THEN FDiv(total_cost, FInt(pos)) ELSE FInt(0))
        ELSE avg0

\* The average cost after a fill: on a BUY total_cost / pos (0.0 if pos is 0),
\* on a SELL unchanged, or 0.0 if the position is 0.
FillAvgCost(pos0, avg0, direction, qty, price) ==
    LET pos == FillPosition(pos0, direction, qty)
        total_cost == FAdd(FMul(avg0, FInt(pos0)), FMul(price, FInt(qty)))
    IN  IF direction = "BUY"
        THEN (IF pos # 0 THEN FDiv(total_cost, FInt(pos)) ELSE FInt(0))
        ELSE (IF pos = 0 THEN FInt(0) ELSE avg0)

\* The realized P&L after a fill: realized += (price - avg) * qty on a SELL.
FillRealized(realized0, avg0, direction, qty, price) ==
    IF direction = "BUY" THEN realized0
    ELSE FAdd(realized0, FMul(FSub(price, avg0), FInt(qty)))

\* A mutant of FillCash: the commission is added to the proceeds of a SELL.
FillCashCommissionAdded(cash0, direction, qty, fill_price, comm) ==
    IF direction = "BUY" THEN cash0 - (fill_price * qty + comm)
    ELSE cash0 + (fill_price * qty + comm)

\* The cash after a fill: cash -= price * qty + comm on a BUY,
\* cash += price * qty - comm on a SELL.
FillCash(cash0, direction, qty, fill_price, comm) ==
    IF direction = "BUY" THEN cash0 - (fill_price * qty + comm)
    ELSE cash0 + (fill_price * qty - comm)

\* A mutant of TrackerEquity: a symbol without a close counts for nothing.
TrackerEquityNoFallback(cash, positions, avg_cost, last_price) ==
    LET value == [s \in DOMAIN positions |->
                     FMul(FInt(positions[s]), Get(last_price, s, FInt(0)))]
    IN  FAdd(FInt(cash), SumOver(DOMAIN positions, value))

\* equity = cash + sum(position * last price, or average cost without one).
TrackerEquity(cash, positions, avg_cost, last_price) ==
    LET value == [s \in DOMAIN positions |->
                     FMul(FInt(positions[s]),
                          Get(last_price, s, Get(avg_cost, s, FInt(0))))]
    IN  FAdd(FInt(cash), SumOver(DOMAIN positions, value))

PortfolioTracker_on_fill(w, e) ==
    LET sym == e.symbol
        qty == e.quantity
        price == FInt(e.fill_price)
        comm == e.commission
        pos0 == Get(w.pt.positions, sym, 0)
        avg0 == Get(w.pt.avg_cost, sym, FInt(0))
        realized0 == Get(w.pt.realized_pnl, sym, FInt(0))
        pos == FillPosition(pos0, e.direction, qty)
        avg == FillAvgCost(pos0, avg0, e.direction, qty, price)
        realized == FillRealized(realized0, avg0, e.direction, qty, price)
        cash == FillCash(w.pt.cash, e.direction, qty, e.fill_price, comm)
        positions == Put(w.pt.positions, sym, pos)
        avg_cost == Put(w.pt.avg_cost, sym, avg)
        realized_pnl == Put(w.pt.realized_pnl, sym, realized)
        last == Get(w.pt.last_price, sym, price)
        unrealized == IF pos # 0 THEN FMul(FSub(last, avg), FInt(pos)) ELSE FInt(0)
        equity == TrackerEquity(cash, positions, avg_cost, w.pt.last_price)
    IN  publish([w EXCEPT !.pt.cash = cash, !.pt.positions = positions,
                          !.pt.avg_cost = avg_cost, !.pt.realized_pnl = realized_pnl],
                PortfolioUpdateEvent(sym, e.timestamp, pos, Round4(avg), Round4(realized),
                                     Round4(unrealized), cash, Round4(equity)))

----------------------------------------------------------------------------
(* PerformanceMetrics (trading/metrics/calculator.py). *)

\* A mutant of PerformanceMetrics_on_portfolio_update: the drawdown of the
\* last equity below the peak is kept, not the largest one.
PerformanceMetrics_on_portfolio_update_LastDrawdown(w, e) ==
    LET eq == e.equity
        m == w.metrics
        dd == DrawdownPct(m.peak_equity, eq)
    IN  [w EXCEPT !.metrics.equity_curve = Append(@, eq),
                  !.metrics.peak_equity = IF eq > @ THEN eq ELSE @,
                  !.metrics.max_drawdown_pct =
                      IF ~(eq > m.peak_equity) /\ m.peak_equity > 0 THEN dd ELSE @,
                  !.metrics.last_avg_cost = Put(@, e.symbol, e.avg_cost)]

PerformanceMetrics_on_portfolio_update(w, e) ==
    LET eq == e.equity
        m == w.metrics
        dd == DrawdownPct(m.peak_equity, eq)
    IN  [w EXCEPT !.metrics.equity_curve = Append(@, eq),
                  !.metrics.peak_equity = IF eq > @ THEN eq ELSE @,
                  !.metrics.max_drawdown_pct =
                      IF ~(eq > m.peak_equity) /\ m.peak_equity > 0 /\ FLess(@, dd)
                      THEN dd ELSE @,
                  !.metrics.last_avg_cost = Put(@, e.symbol, e.avg_cost)]

\* A mutant of PerformanceMetrics_on_fill: a symbol without a recorded
\* average cost has the cost basis 0.
PerformanceMetrics_on_fill_ZeroBasis(w, e) ==
    LET avg_cost == Get(w.metrics.last_avg_cost, e.symbol, 0)
    IN  [w EXCEPT !.metrics.trades =
                      Append(@, <<avg_cost, e.fill_price, e.direction, e.quantity>>)]

PerformanceMetrics_on_fill(w, e) ==
    LET avg_cost == Get(w.metrics.last_avg_cost, e.symbol, e.fill_price)
    IN  [w EXCEPT !.metrics.trades =
                      Append(@, <<avg_cost, e.fill_price, e.direction, e.quantity>>)]

\* A trade <<cost, price, direction, quantity>> of the log counts as
\* profitable: a BUY above its cost basis, a SELL below it.
Profitable(t) ==
    \/ t[3] = "BUY" /\ t[2] > t[1]
    \/ t[3] = "SELL" /\ t[2] < t[1]

\* round(x, 2) of a number of ticks, in cents.
Round2(x) == Round4(Frac(x, 100))

\* PerformanceMetrics.report.  The percentages and the win rate are rounded
\* to 4 decimals (units of 10^-4), the final equity to cents.  _sharpe is a
\* function of the equity curve alone: the curve stands for sharpe_ratio.
PerformanceMetrics_report(m) ==
    LET final_equity == m.equity_curve[Len(m.equity_curve)]
        total_return == FMul(Frac(final_equity - m.starting_equity, m.starting_equity),
                             FInt(100))
        profitable == Len(SelectSeq(m.trades, Profitable))
        total == Len(m.trades)
        win_rate == IF total # 0 THEN Frac(profitable, total) ELSE FInt(0)
    IN  [total_return_pct |-> Round4(FMul(total_return, FInt(Scale))),
         max_drawdown_pct |-> Round4(FMul(m.max_drawdown_pct, FInt(Scale))),
         sharpe_ratio |-> m.equity_curve,
         win_rate |-> Round4(FMul(win_rate, FInt(Scale))),
         total_trades |-> total,
         profitable_trades |-> profitable,
         final_equity |-> Round2(final_equity)]

----------------------------------------------------------------------------
(* SQLiteWriter (trading/persistence/sqlite_writer.py): every handler is   *)
(* one INSERT on the connection, which the database may refuse with an     *)
(* exception (sqlite3.Error: a closed connection, a full disk, a lock).    *)

SQLiteWriterHandlers ==
    {"SQLiteWriter._on_market_data", "SQLiteWriter._on_signal", "SQLiteWriter._on_order",
     "SQLiteWriter._on_approved_order", "SQLiteWriter._on_risk_veto",
     "SQLiteWriter._on_fill", "SQLiteWriter._on_portfolio_update"}

\* A mutant of SQLiteWriter_on_event: the handler of a FillEvent also
\* publishes an empty PortfolioUpdateEvent.
SQLiteWriter_on_event_Publishes(w, e, rnd) ==
    IF rnd.fails THEN [w EXCEPT !.raised = TRUE]
    ELSE IF e.kind = "FillEvent"
         THEN publish(w, PortfolioUpdateEvent(e.symbol, e.timestamp, 0, 0, 0, 0, 0, 0))
         ELSE w

\* self._conn.execute("INSERT ..."): rnd.fails says whether it raises.
SQLiteWriter_on_event(w, e, rnd) ==
    IF rnd.fails THEN [w EXCEPT !.raised = TRUE] ELSE w

----------------------------------------------------------------------------
(* EventBus.run: the dispatch of one event to its handlers. *)

\* handler(event), for the handler named h.
Call(h, w, e, rnd) ==
    CASE h = "SignalGenerator._on_market_data" -> SignalGenerator_on_market_data(w, e, rnd)
      [] h = "MACrossoverStrategy._on_market_data" ->
             MACrossoverStrategy_on_market_data(w, e)
      [] h = "RSIStrategy._on_market_data" -> RSIStrategy_on_market_data(w, e)
      [] h = "OrderManager._on_market_data" -> OrderManager_on_market_data(w, e)
      [] h = "OrderManager._on_signal" -> OrderManager_on_signal(w, e)
      [] h = "RiskManager._on_order" -> RiskManager_on_order(w, e)
      [] h = "RiskManager._on_portfolio_update" -> RiskManager_on_portfolio_update(w, e)
      [] h = "ExecutionSimulator._on_order" -> ExecutionSimulator_on_order(w, e, rnd)
      [] h = "PortfolioTracker._on_fill" -> PortfolioTracker_on_fill(w, e)
      [] h = "PortfolioTracker._on_market_data" -> PortfolioTracker_on_market_data(w, e)
      [] h = "PerformanceMetrics._on_portfolio_update" ->
             PerformanceMetrics_on_portfolio_update(w, e)
      [] h = "PerformanceMetrics._on_fill" -> PerformanceMetrics_on_fill(w, e)
      [] h \in SQLiteWriterHandlers -> SQLiteWriter_on_event(w, e, rnd)
      [] OTHER -> w   \* an observer: a list's append, the EventLogger

\* A mutant of HandlersFor: a kind without handlers falls to a catch-all handler.
HandlersOrCatchAll(hs, kind) == Get(hs, kind, <<"catch_all">>)

\* self._handlers.get(type(event), []): the handlers of the exact kind.
HandlersFor(hs, kind) == Get(hs, kind, <<>>)

\* A mutant of Invoke: a handler that raises is skipped and the next one is called.
RECURSIVE InvokeIgnoringRaise(_, _, _, _)
InvokeIgnoringRaise(hs, w, e, rnd) ==
    IF hs = <<>> THEN w
    ELSE LET h == Head(hs)
             w1 == Call(h, [w EXCEPT !.raised = FALSE], e, rnd)
             w2 == [w1 EXCEPT !.delivered =
                        Append(@, [handler |-> h, at |-> w.at, raised |-> w1.raised]),
                              !.raised = w.raised \/ w1.raised]
         IN  InvokeIgnoringRaise(Tail(hs), w2, e, rnd)

\* A mutant of Invoke: the handlers are called from the last subscribed to the first.
RECURSIVE InvokeNewestFirst(_, _, _, _)
InvokeNewestFirst(hs, w, e, rnd) ==
    IF hs = <<>> \/ w.raised THEN w
    ELSE LET h == hs[Len(hs)]
             w1 == Call(h, w, e, rnd)
         IN  InvokeNewestFirst(SubSeq(hs, 1, Len(hs) - 1),
                    [w1 EXCEPT !.delivered =
                        Append(@, [handler |-> h, at |-> w.at, raised |-> w1.raised])],
                    e, rnd)

\* for handler in hs: handler(event), until a handler raises.  Every call is
\* recorded in the history, with whether it raised.
RECURSIVE Invoke(_, _, _, _)
Invoke(hs, w, e, rnd) ==
    IF hs = <<>> \/ w.raised THEN w
    ELSE LET h == Head(hs)
             w1 == Call(h, w, e, rnd)
         IN  Invoke(Tail(hs),
                    [w1 EXCEPT !.delivered =
                        Append(@, [handler |-> h, at |-> w.at, raised |-> w1.raised])],
                    e, rnd)

NoDraw == [direction |-> "HOLD", strength |-> 0, u |-> 0, fails |-> FALSE]


\* The draws of the random generators that the handlers of e may use.
DrawsFor(hs) ==
    LET signal == \E i \in DOMAIN hs : hs[i] = "SignalGenerator._on_market_data"
        fill == \E i \in DOMAIN hs : hs[i] = "ExecutionSimulator._on_order"
        db == \E i \in DOMAIN hs : hs[i] \in SQLiteWriterHandlers
    IN  [direction : IF signal THEN Directions ELSE {NoDraw.direction},
         strength : IF signal THEN Strengths ELSE {NoDraw.strength},
         u : IF fill THEN Draws ELSE {NoDraw.u},
         fails : IF db THEN BOOLEAN ELSE {NoDraw.fails}]

NoLimit == <<>>

\* A mutant of LimitReached: the loop stops one event late.
LimitReachedLate == loop.max_events # NoLimit /\ loop.processed > loop.max_events[1]

\* max_events is not None and processed >= max_events
LimitReached == loop.max_events # NoLimit /\ loop.processed >= loop.max_events[1]

\* bus.run(max_events): the loop is entered.  The history keeps how many
\* events were published and dispatched before it.
EventBus_run_enter(max_events) ==
    /\ ~loop.active
    /\ loop' = [active |-> TRUE, processed |-> 0, max_events |-> max_events,
                raised |-> FALSE,
                entered |-> [published |-> Len(published),
                             dispatched |-> Len(dispatched)]]

\* One turn of the loop of run: an event is taken and handed to every handler
\* of its kind, in subscription order.  An exception of a handler leaves run
\* at once and reaches the caller.
EventBus_run_dispatch ==
    /\ loop.active
    /\ queue # <<>>
    /\ ~LimitReached
    /\ LET got == QueueGet(queue)
           event == got[1]
           hs == HandlersFor(handlers, event.kind)
       IN  \E rnd \in DrawsFor(hs) :
             LET w == Invoke(hs, [World EXCEPT !.queue = got[2]], event, rnd)
             IN  /\ queue' = w.queue
                 /\ published' = w.published
                 /\ om' = w.om
                 /\ risk' = w.risk
                 /\ ex' = w.ex
                 /\ pt' = w.pt
                 /\ metrics' = w.metrics
                 /\ strategy' = w.strategy
                 /\ delivered' = w.delivered
                 /\ draws' = Append(draws, rnd)
                 /\ dispatched' = Append(dispatched, event)
                 /\ loop' = IF w.raised
                            THEN [loop EXCEPT !.active = FALSE, !.raised = TRUE]
                            ELSE [loop EXCEPT !.processed = @ + 1]
                 /\ phase' = IF w.raised THEN "raised" ELSE phase
    /\ UNCHANGED <<handlers, subscriptions>>

\* run returns: the queue is empty, or max_events events were processed.
EventBus_run_return ==
    /\ loop.active
    /\ (queue = <<>> \/ LimitReached)
    /\ loop' = [loop EXCEPT !.active = FALSE]

\* bus.publish(event) by the caller of the bus, outside run.
EventBus_publish(e) ==
    /\ ~loop.active
    /\ LET w == publish(World, e)
       IN  queue' = w.queue /\ published' = w.published

----------------------------------------------------------------------------
(* BacktestEngine.run (trading/backtest/engine.py): the components are     *)
(* built from the configuration and registered, the feed publishes every   *)
(* bar, and only then the bus runs, until its queue is empty.              *)

\* The defaults of the configuration: 1 basis point, 0.01 a share, 10 percent.
DefaultSlippageBps == 1
DefaultCommissionPerShare == 100
DefaultMaxDrawdownPct == 10

\* The configurations the model follows (starting_cash 100.0000).
EngineConfigs ==
    [quantity : {1, 2}, max_position : {1},
     max_drawdown_pct : {DefaultMaxDrawdownPct}, starting_cash : {1000000},
     slippage_bps : {DefaultSlippageBps},
     commission_per_share : {DefaultCommissionPerShare}]

\* A mutant of EngineRegistrations: the ExecutionSimulator subscribes to
\* OrderEvent, not to ApprovedOrderEvent.
EngineRegistrationsFillOrders ==
    << <<"MarketDataEvent", "SignalGenerator._on_market_data">>,
       <<"MarketDataEvent", "OrderManager._on_market_data">>,
       <<"SignalEvent", "OrderManager._on_signal">>,
       <<"OrderEvent", "RiskManager._on_order">>,
       <<"PortfolioUpdateEvent", "RiskManager._on_portfolio_update">>,
       <<"OrderEvent", "ExecutionSimulator._on_order">>,
       <<"FillEvent", "PortfolioTracker._on_fill">>,
       <<"MarketDataEvent", "PortfolioTracker._on_market_data">>,
       <<"PortfolioUpdateEvent", "PerformanceMetrics._on_portfolio_update">>,
       <<"FillEvent", "PerformanceMetrics._on_fill">>,
       <<"MarketDataEvent", "EventLogger._on_market_data">>,
       <<"SignalEvent", "EventLogger._on_signal">>,
       <<"OrderEvent", "EventLogger._on_order">>,
       <<"ApprovedOrderEvent", "EventLogger._on_approved_order">>,
       <<"RiskVetoEvent", "EventLogger._on_risk_veto">>,
       <<"FillEvent", "EventLogger._on_fill">>,
       <<"PortfolioUpdateEvent", "EventLogger._on_portfolio_update">> >>

\* component.register(bus) for strategy, order_mgr, risk_mgr, exec_sim,
\* portfolio, metrics, event_log, in this order.
EngineRegistrations ==
    << <<"MarketDataEvent", "SignalGenerator._on_market_data">>,
       <<"MarketDataEvent", "OrderManager._on_market_data">>,
       <<"SignalEvent", "OrderManager._on_signal">>,
       <<"OrderEvent", "RiskManager._on_order">>,
       <<"PortfolioUpdateEvent", "RiskManager._on_portfolio_update">>,
       <<"ApprovedOrderEvent", "ExecutionSimulator._on_order">>,
       <<"FillEvent", "PortfolioTracker._on_fill">>,
       <<"MarketDataEvent", "PortfolioTracker._on_market_data">>,
       <<"PortfolioUpdateEvent", "PerformanceMetrics._on_portfolio_update">>,
       <<"FillEvent", "PerformanceMetrics._on_fill">>,
       <<"MarketDataEvent", "EventLogger._on_market_data">>,
       <<"SignalEvent", "EventLogger._on_signal">>,
       <<"OrderEvent", "EventLogger._on_order">>,
       <<"ApprovedOrderEvent", "EventLogger._on_approved_order">>,
       <<"RiskVetoEvent", "EventLogger._on_risk_veto">>,
       <<"FillEvent", "EventLogger._on_fill">>,
       <<"PortfolioUpdateEvent", "EventLogger._on_portfolio_update">> >>

\* The constructors: OrderManager, RiskManager, ExecutionSimulator,
\* PortfolioTracker, PerformanceMetrics, and an EventBus.
Construct(cfg) ==
    /\ queue = <<>>
    /\ loop = [active |-> FALSE, processed |-> 0, max_events |-> NoLimit,
               raised |-> FALSE,
               entered |-> [published |-> 0, dispatched |-> 0]]
    /\ delivered = <<>>
    /\ draws = <<>>
    /\ published = <<>>
    /\ dispatched = <<>>
    /\ phase = "feed"
    /\ om = [quantity |-> cfg.quantity, last_price |-> EmptyDict, next_id |-> 1]
    /\ risk = [max_position |-> cfg.max_position,
               max_drawdown_pct |-> cfg.max_drawdown_pct,
               positions |-> EmptyDict,
               peak_equity |-> cfg.starting_cash,
               current_equity |-> cfg.starting_cash]
    /\ ex = [slippage_bps |-> cfg.slippage_bps,
             commission_per_share |-> cfg.commission_per_share, next_id |-> 1]
    /\ pt = [cash |-> cfg.starting_cash, positions |-> EmptyDict,
             avg_cost |-> EmptyDict, realized_pnl |-> EmptyDict,
             last_price |-> EmptyDict]
    /\ metrics = [starting_equity |-> cfg.starting_cash,
                  equity_curve |-> <<cfg.starting_cash>>,
                  peak_equity |-> cfg.starting_cash,
                  max_drawdown_pct |-> FInt(0),
                  trades |-> <<>>, last_avg_cost |-> EmptyDict]

Init ==
    /\ \E cfg \in EngineConfigs : Construct(cfg)
    /\ handlers = subscribe(NoHandlers, EngineRegistrations)
    /\ subscriptions = EngineRegistrations
    /\ strategy = SignalGenerator_init

\* The bars published so far.
Bars(log) == SelectSeq(log, LAMBDA e : e.kind = "MarketDataEvent")

\* feed.emit(bus), one bar of it: the next bar is published.  The engine builds
\* one feed of one symbol; the model lets the bars be of either symbol, which
\* covers a bus fed by several feeds before it runs.
FeedEmit ==
    /\ phase = "feed"
    /\ Len(Bars(published)) < MaxBars
    /\ \E sym \in Symbols, close \in Closes :
          EventBus_publish(MarketDataEvent(sym, Len(Bars(published)) + 1, close))
    /\ UNCHANGED <<handlers, loop, dispatched, phase, om, risk, ex, pt, metrics, delivered, subscriptions, strategy, draws>>

\* bus.run(), after the feed has published its last bar.
EngineRun ==
    /\ phase = "feed"
    /\ EventBus_run_enter(NoLimit)
    /\ phase' = "run"
    /\ UNCHANGED <<queue, handlers, published, dispatched, om, risk, ex, pt, metrics, delivered, subscriptions, strategy, draws>>

\* bus.run() returns to the engine, which goes on to the report.
EngineDone ==
    /\ phase = "run"
    /\ EventBus_run_return
    /\ phase' = "done"
    /\ UNCHANGED <<queue, handlers, published, dispatched, om, risk, ex, pt, metrics, delivered, subscriptions, strategy, draws>>

Next ==
    \/ FeedEmit
    \/ EngineRun
    \/ EventBus_run_dispatch
    \/ EngineDone

Spec == Init /\ [][Next]_vars

----------------------------------------------------------------------------
(* The RiskManager alone on a bus (tests/test_risk_manager.py): the caller *)
(* publishes PortfolioUpdateEvents and OrderEvents, then runs the bus; two *)
(* lists collect the approved orders and the vetoes.                       *)

\* The most events the caller publishes to the RiskManager.
MaxRiskEvents == 3

\* RiskManager(max_position, max_drawdown_pct, starting_equity) of the model:
\* a starting equity below 0, 0 and above 0.
RiskConfigs ==
    [quantity : {1}, max_position : {1},
     max_drawdown_pct : {DefaultMaxDrawdownPct}, starting_cash : {-100, 0, 100},
     slippage_bps : {DefaultSlippageBps},
     commission_per_share : {DefaultCommissionPerShare}]

\* The equities of the PortfolioUpdateEvents the caller publishes: with a peak
\* of 100 a drawdown of 10 percent (the cap), of 20 percent, and a loss below 0.
RiskEquities == {-200, 80, 90}

\* The symbol, the price and the timestamp of the orders of the test.
TestSymbol == "AAPL"
TestPrice == 1500000
TestTimestamp == 1

RiskRegistrations ==
    << <<"ApprovedOrderEvent", "approved.append">>,
       <<"RiskVetoEvent", "vetoed.append">>,
       <<"OrderEvent", "RiskManager._on_order">>,
       <<"PortfolioUpdateEvent", "RiskManager._on_portfolio_update">> >>

InitRisk ==
    /\ \E cfg \in RiskConfigs : Construct(cfg)
    /\ handlers = subscribe(NoHandlers, RiskRegistrations)
    /\ subscriptions = RiskRegistrations
    /\ strategy = NoStrategy

\* bus.publish(OrderEvent(...)) by the caller: a fresh order id each time.
CallerPublishesOrder ==
    /\ phase = "feed"
    /\ Len(published) < MaxRiskEvents
    /\ \E dir \in {"BUY", "SELL"}, qty \in {1, 2} :
          EventBus_publish(OrderEvent(Len(published) + 1, TestSymbol, TestTimestamp,
                                      "MARKET", dir, qty, TestPrice))
    /\ UNCHANGED <<handlers, loop, dispatched, phase, om, risk, ex, pt, metrics, delivered, subscriptions, strategy, draws>>

\* bus.publish(PortfolioUpdateEvent(...)) by the caller.
CallerPublishesUpdate ==
    /\ phase = "feed"
    /\ Len(published) < MaxRiskEvents
    /\ \E sym \in Symbols, eq \in RiskEquities :
          EventBus_publish(PortfolioUpdateEvent(sym, TestTimestamp, 1, 0, 0, 0, eq, eq))
    /\ UNCHANGED <<handlers, loop, dispatched, phase, om, risk, ex, pt, metrics, delivered, subscriptions, strategy, draws>>

NextRisk ==
    \/ CallerPublishesOrder
    \/ CallerPublishesUpdate
    \/ EngineRun
    \/ EventBus_run_dispatch
    \/ EngineDone

SpecRisk == InitRisk /\ [][NextRisk]_vars

----------------------------------------------------------------------------
(* The PortfolioTracker alone on a bus (tests/test_portfolio_tracker.py):  *)
(* the caller publishes MarketDataEvents and FillEvents, then runs the     *)
(* bus; a list collects the PortfolioUpdateEvents.                         *)

\* The most events the caller publishes to the PortfolioTracker.
MaxTrackerEvents == 3

\* The close of the bars the caller publishes (1.5000).
TrackerClose == 15000

\* The <<quantity, fill price>> of the fills the caller publishes.
TrackerLots == {<<1, 10000>>, <<2, 20000>>}

TrackerRegistrations ==
    << <<"PortfolioUpdateEvent", "updates.append">>,
       <<"FillEvent", "PortfolioTracker._on_fill">>,
       <<"MarketDataEvent", "PortfolioTracker._on_market_data">> >>

InitTracker ==
    /\ \E cfg \in EngineConfigs : cfg.quantity = 1 /\ Construct(cfg)
    /\ handlers = subscribe(NoHandlers, TrackerRegistrations)
    /\ subscriptions = TrackerRegistrations
    /\ strategy = NoStrategy

\* bus.publish(FillEvent(...)) by the caller: a fresh fill id and order id,
\* and a timestamp of its own.
CallerPublishesFill ==
    /\ phase = "feed"
    /\ Len(published) < MaxTrackerEvents
    /\ \E sym \in Symbols, dir \in {"BUY", "SELL"}, lot \in TrackerLots :
          EventBus_publish(FillEvent(Len(published) + 1, Len(published) + 1, sym,
                                     TestTimestamp + Len(published), dir, lot[1], lot[2],
                                     lot[1] * DefaultCommissionPerShare))
    /\ UNCHANGED <<handlers, loop, dispatched, phase, om, risk, ex, pt, metrics, delivered, subscriptions, strategy, draws>>

\* bus.publish(MarketDataEvent(...)) by the caller.
CallerPublishesBar ==
    /\ phase = "feed"
    /\ Len(published) < MaxTrackerEvents
    /\ \E sym \in Symbols :
          EventBus_publish(MarketDataEvent(sym, TestTimestamp, TrackerClose))
    /\ UNCHANGED <<handlers, loop, dispatched, phase, om, risk, ex, pt, metrics, delivered, subscriptions, strategy, draws>>

NextTracker ==
    \/ CallerPublishesFill
    \/ CallerPublishesBar
    \/ EngineRun
    \/ EventBus_run_dispatch
    \/ EngineDone

SpecTracker == InitTracker /\ [][NextTracker]_vars

----------------------------------------------------------------------------
(* What the histories say. *)

\* The places of the events of the given kinds in a log.
Places(log, kinds) == {i \in DOMAIN log : log[i].kind \in kinds}

\* The layer of a kind in the pipeline.
Layer(kind) ==
    CASE kind = "MarketDataEvent" -> 1
      [] kind = "SignalEvent" -> 2
      [] kind = "OrderEvent" -> 3
      [] kind \in {"ApprovedOrderEvent", "RiskVetoEvent"} -> 4
      [] kind = "FillEvent" -> 5
      [] kind = "PortfolioUpdateEvent" -> 6

\* The answers of the RiskManager to the order with this id.
Answers(id) ==
    {i \in Places(published, {"ApprovedOrderEvent", "RiskVetoEvent"}) :
        published[i].order_id = id}

\* The close of the last bar published for a symbol.
LastClose(sym) ==
    LET bars == {i \in Places(published, {"MarketDataEvent"}) : published[i].symbol = sym}
    IN  published[CHOOSE i \in bars : \A j \in bars : j <= i].close

----------------------------------------------------------------------------
(* Claims about the batch pipeline (Spec): every bar is published before   *)
(* the one run of the bus.                                                 *)

\* C1: with every MarketDataEvent published before the run, dispatch is layered
\* by kind: an event is dispatched only when no event of an earlier layer
\* (MarketData, Signal, Order, Approved/Veto, Fill, PortfolioUpdate) is
\* dispatched after it or is still waiting in the queue.
C1_LayeredDispatch ==
    LET order == dispatched \o queue
    IN  \A i, j \in DOMAIN order :
          (i <= Len(dispatched) /\ i < j) => Layer(order[i].kind) <= Layer(order[j].kind)

\* C1, witness: a run over two bars has dispatched events of all six layers.
C1_Witness ==
    /\ phase = "done"
    /\ Cardinality(Places(dispatched, {"MarketDataEvent"})) >= 2
    /\ \A l \in 1..6 : \E i \in DOMAIN dispatched : Layer(dispatched[i].kind) = l

\* C2: the events are dispatched in the order of their publication, whatever
\* their kinds: the dispatched events followed by the waiting ones are the
\* published events, in publication order.
C2_FifoAcrossKinds == published = dispatched \o queue

\* C2, witness: during a run, an event published by a handler (a signal) has
\* been dispatched, after the bars published before it, and others wait.
C2_Witness ==
    /\ loop.active
    /\ queue # <<>>
    /\ Cardinality(Places(dispatched, {"MarketDataEvent"})) >= 2
    /\ Places(dispatched, {"SignalEvent", "OrderEvent"}) # {}

\* C4: the absolute position of the PortfolioTracker in a symbol never
\* exceeds the RiskManager's max_position.
C4_PositionWithinLimit ==
    \A s \in DOMAIN pt.positions : Abs(pt.positions[s]) <= risk.max_position

\* C8: in the batch run the RiskManager sees no portfolio update before the
\* last order: an order at the head of the queue meets shadow position 0 and
\* current equity = peak equity = starting equity; no order is vetoed for
\* drawdown, and an order is vetoed exactly when its quantity exceeds
\* max_position.
C8_RiskViewLagsAWave ==
    /\ (queue # <<>> /\ Head(queue).kind = "OrderEvent") =>
          /\ Get(risk.positions, Head(queue).symbol, 0) = 0
          /\ risk.current_equity = metrics.starting_equity
          /\ risk.peak_equity = metrics.starting_equity
    /\ \A i \in Places(dispatched, {"OrderEvent"}) :
          LET o == dispatched[i]
          IN  \A a \in Answers(o.order_id) :
                /\ published[a].kind = "RiskVetoEvent" <=> o.quantity > risk.max_position
                /\ published[a].kind = "RiskVetoEvent" =>
                      published[a].reason.text = "position limit exceeded"

\* C8, witness: the run is over and two BUY orders of one symbol were both
\* approved, the second one against a shadow position that was still 0, and
\* both were filled.
C8_Witness ==
    /\ phase = "done"
    /\ \E i, j \in Places(dispatched, {"OrderEvent"}) :
          /\ i < j
          /\ dispatched[i].symbol = dispatched[j].symbol
          /\ dispatched[i].direction = "BUY" /\ dispatched[j].direction = "BUY"
          /\ \A a \in Answers(dispatched[j].order_id) :
                published[a].kind = "ApprovedOrderEvent"
    /\ Cardinality(Places(dispatched, {"PortfolioUpdateEvent"})) >= 2

OrdersOf(sig) ==
    {i \in Places(published, {"OrderEvent"}) :
        published[i].symbol = sig.symbol /\ published[i].timestamp = sig.timestamp}

\* C10: a dispatched HOLD signal has no order, a dispatched BUY or SELL signal
\* has exactly one, with its direction; every order comes from such a signal,
\* so that orders, approved orders and fills are BUY or SELL and a run of
\* HOLD signals alone has no order.
C10_OrdersFromNonHoldSignals ==
    /\ \A i \in Places(dispatched, {"SignalEvent"}) :
          LET sig == dispatched[i]
          IN  IF sig.direction = "HOLD" THEN OrdersOf(sig) = {}
              ELSE /\ Cardinality(OrdersOf(sig)) = 1
                   /\ \A o \in OrdersOf(sig) : published[o].direction = sig.direction
    /\ \A o \in Places(published, {"OrderEvent"}) :
          \E i \in Places(dispatched, {"SignalEvent"}) :
              /\ o \in OrdersOf(dispatched[i])
              /\ dispatched[i].direction # "HOLD"
    /\ \A i \in Places(published, {"OrderEvent", "ApprovedOrderEvent", "FillEvent"}) :
          published[i].direction \in {"BUY", "SELL"}
    /\ (\A i \in Places(dispatched, {"SignalEvent"}) : dispatched[i].direction = "HOLD")
          => Places(published, {"OrderEvent"}) = {}

\* C10, witness: the run is over with a HOLD signal and a BUY signal dispatched
\* and one fill.
C10_Witness ==
    /\ phase = "done"
    /\ \E i, j \in Places(dispatched, {"SignalEvent"}) :
          dispatched[i].direction = "HOLD" /\ dispatched[j].direction = "BUY"
    /\ Cardinality(Places(published, {"OrderEvent"})) = 1
    /\ Places(published, {"FillEvent"}) # {}

----------------------------------------------------------------------------
(* Claims about the RiskManager (SpecRisk).  What the RiskManager has      *)
(* received when it handles the event at place i of the dispatch history   *)
(* is read from the history before i.                                      *)

\* The updates dispatched before place i.
UpdatesBefore(i) == {j \in Places(dispatched, {"PortfolioUpdateEvent"}) : j < i}

\* The last of a non-empty set of places.
Last(P) == CHOOSE i \in P : \A j \in P : j <= i

\* The position of the last update received for a symbol before place i, 0 if none.
ShadowAt(i, sym) ==
    LET P == {j \in UpdatesBefore(i) : dispatched[j].symbol = sym}
    IN  IF P = {} THEN 0 ELSE dispatched[Last(P)].position

\* The equity of the last update received before place i, the starting equity if none.
CurrentEquityAt(i) ==
    IF UpdatesBefore(i) = {} THEN metrics.starting_equity
    ELSE dispatched[Last(UpdatesBefore(i))].equity

\* The greatest of the starting equity and the equities received before place i.
PeakEquityAt(i) ==
    CHOOSE p \in {metrics.starting_equity} \cup
                 {dispatched[j].equity : j \in UpdatesBefore(i)} :
        /\ p >= metrics.starting_equity
        /\ \A j \in UpdatesBefore(i) : p >= dispatched[j].equity

\* The position an order would lead to, from the shadow position at place i.
HypotheticalAt(i) ==
    LET o == dispatched[i]
    IN  ShadowAt(i, o.symbol) + (IF o.direction = "BUY" THEN o.quantity ELSE -o.quantity)

\* (peak - current) / peak * 100 > max_drawdown_pct at place i.
DrawdownAboveCapAt(i) ==
    /\ PeakEquityAt(i) # 0
    /\ FLess(FInt(risk.max_drawdown_pct),
             FMul(Frac(PeakEquityAt(i) - CurrentEquityAt(i), PeakEquityAt(i)), FInt(100)))

\* C3: every order the RiskManager has handled has exactly one answer with its
\* order id, an ApprovedOrderEvent or a RiskVetoEvent; an order it has not
\* handled yet has none.
C3_ExactlyOneAnswer ==
    /\ \A i \in Places(dispatched, {"OrderEvent"}) :
          Cardinality(Answers(dispatched[i].order_id)) = 1
    /\ \A i \in Places(queue, {"OrderEvent"}) : Answers(queue[i].order_id) = {}

\* C3, witness: an order was answered while the peak equity was not above 0,
\* and another one was vetoed.
C3_Witness ==
    /\ phase = "done"
    /\ \E i \in Places(dispatched, {"OrderEvent"}) : PeakEquityAt(i) <= 0
    /\ Places(published, {"RiskVetoEvent"}) # {}
    /\ Places(published, {"ApprovedOrderEvent"}) # {}

\* C6: an order whose hypothetical position (shadow position + quantity for a
\* BUY, - quantity for a SELL) exceeds max_position in absolute value is
\* answered by a RiskVetoEvent whose reason says "position limit", also when
\* the drawdown is above its cap.
C6_PositionLimitVeto ==
    \A i \in Places(dispatched, {"OrderEvent"}) :
        Abs(HypotheticalAt(i)) > risk.max_position =>
            /\ Answers(dispatched[i].order_id) # {}
            /\ \A a \in Answers(dispatched[i].order_id) :
                  /\ published[a].kind = "RiskVetoEvent"
                  /\ published[a].reason.text = "position limit exceeded"

\* C6, witness: an order above the position limit by its shadow position was
\* vetoed while the drawdown was above its cap too.
C6_Witness ==
    \E i \in Places(dispatched, {"OrderEvent"}) :
        /\ Abs(HypotheticalAt(i)) > risk.max_position
        /\ dispatched[i].quantity <= risk.max_position
        /\ DrawdownAboveCapAt(i)

\* C7: an order within the position limit is vetoed, with a reason that says
\* "drawdown", exactly when (peak - current) / peak * 100 is above
\* max_drawdown_pct, for the equities received so far; otherwise it is approved.
C7_DrawdownVeto ==
    \A i \in Places(dispatched, {"OrderEvent"}) :
        Abs(HypotheticalAt(i)) <= risk.max_position =>
            /\ Answers(dispatched[i].order_id) # {}
            /\ \A a \in Answers(dispatched[i].order_id) :
                  IF DrawdownAboveCapAt(i)
                  THEN /\ published[a].kind = "RiskVetoEvent"
                       /\ published[a].reason.text = "max drawdown exceeded"
                  ELSE published[a].kind = "ApprovedOrderEvent"

\* C7, witness: an order within the position limit was vetoed for a drawdown
\* from a peak that is neither the starting equity nor the current equity.
C7_Witness ==
    \E i \in Places(dispatched, {"OrderEvent"}) :
        /\ Abs(HypotheticalAt(i)) <= risk.max_position
        /\ DrawdownAboveCapAt(i)
        /\ PeakEquityAt(i) # metrics.starting_equity
        /\ PeakEquityAt(i) # CurrentEquityAt(i)
        /\ \E a \in Answers(dispatched[i].order_id) : published[a].kind = "RiskVetoEvent"

----------------------------------------------------------------------------
(* Claims about the PortfolioTracker (SpecTracker). *)

\* The k-th place of a set of places.
Nth(P, k) == CHOOSE i \in P : Cardinality({j \in P : j <= i}) = k

\* The signed sum of the quantities of the fills at the places P.
RECURSIVE SignedSum(_)
SignedSum(P) ==
    IF P = {} THEN 0
    ELSE LET i == CHOOSE x \in P : TRUE
             f == dispatched[i]
         IN  (IF f.direction = "BUY" THEN f.quantity ELSE -f.quantity)
                + SignedSum(P \ {i})

\* The fills of a symbol handled up to place i of the dispatch history.
FillsUpTo(i, sym) ==
    {j \in Places(dispatched, {"FillEvent"}) : j <= i /\ dispatched[j].symbol = sym}

\* C5: the position of every symbol is the signed sum of the quantities of
\* the fills handled for that symbol (BUY positive, SELL negative), and so is
\* the position of the PortfolioUpdateEvent published for each fill.
C5_PositionIsSignedSum ==
    /\ \A sym \in Symbols :
          Get(pt.positions, sym, 0) = SignedSum(FillsUpTo(Len(dispatched), sym))
    /\ LET F == Places(dispatched, {"FillEvent"})
           U == Places(published, {"PortfolioUpdateEvent"})
       IN  /\ Cardinality(U) = Cardinality(F)
           /\ \A k \in 1..Cardinality(F) :
                 LET f == Nth(F, k)
                     u == published[Nth(U, k)]
                 IN  /\ u.symbol = dispatched[f].symbol
                     /\ u.position = SignedSum(FillsUpTo(f, u.symbol))

\* C5, witness: three fills were handled, of both symbols, with a SELL; one
\* symbol is held short and the other long.
C5_Witness ==
    /\ phase = "done"
    /\ Cardinality(Places(dispatched, {"FillEvent"})) >= 3
    /\ \E a, b \in DOMAIN pt.positions : pt.positions[a] < 0 /\ pt.positions[b] > 1

----------------------------------------------------------------------------
(* The EventBus under any caller (tests/test_event_bus.py): handlers of    *)
(* several components and lists are subscribed, in some order; the caller  *)
(* publishes events and runs the bus, with or without max_events, any      *)
(* number of times; a handler of the SQLiteWriter may raise.               *)

\* The most events the caller publishes to the bus.
MaxBusEvents == 3

\* The values of max_events the caller passes to run.
RunLimits == {NoLimit, <<0>>, <<2>>}

\* The subscriptions of the caller, in the order of the calls of subscribe:
\* two lists and a component on one kind with a handler that may raise
\* between them, a kind without handlers, a handler subscribed twice.
BusRegistrations ==
    { << <<"FillEvent", "box_a.append">>,
         <<"PortfolioUpdateEvent", "updates.append">>,
         <<"FillEvent", "PortfolioTracker._on_fill">>,
         <<"FillEvent", "SQLiteWriter._on_fill">>,
         <<"FillEvent", "box_b.append">> >>,
      << <<"FillEvent", "SQLiteWriter._on_fill">>,
         <<"MarketDataEvent", "bar_received.append">>,
         <<"FillEvent", "PortfolioTracker._on_fill">>,
         <<"PortfolioUpdateEvent", "SQLiteWriter._on_portfolio_update">>,
         <<"PortfolioUpdateEvent", "updates.append">> >>,
      << <<"FillEvent", "box_b.append">>,
         <<"MarketDataEvent", "PortfolioTracker._on_market_data">>,
         <<"FillEvent", "box_a.append">>,
         <<"FillEvent", "PortfolioTracker._on_fill">>,
         <<"FillEvent", "box_b.append">> >> }

InitBus ==
    /\ \E cfg \in EngineConfigs : cfg.quantity = 1 /\ Construct(cfg)
    /\ \E regs \in BusRegistrations :
          /\ handlers = subscribe(NoHandlers, regs)
          /\ subscriptions = regs
    /\ strategy = NoStrategy

\* bus.publish(event) by the caller, between the runs: a fill (a BUY of one
\* share) or a bar.
BusPublishes ==
    /\ phase \in {"feed", "raised"}
    /\ Cardinality(Places(published, {"FillEvent", "MarketDataEvent"})) < MaxBusEvents
    /\ \/ EventBus_publish(FillEvent(Len(published) + 1, Len(published) + 1,
                                     TestSymbol, TestTimestamp, "BUY", 1, TrackerClose,
                                     DefaultCommissionPerShare))
       \/ EventBus_publish(MarketDataEvent(TestSymbol, TestTimestamp, TrackerClose))
    /\ UNCHANGED <<handlers, loop, dispatched, phase, om, risk, ex, pt, metrics,
                   delivered, subscriptions, strategy, draws>>

\* bus.run(max_events) by the caller, also after a run that raised.
BusRuns ==
    /\ phase \in {"feed", "raised"}
    /\ \E max_events \in RunLimits : EventBus_run_enter(max_events)
    /\ phase' = "run"
    /\ UNCHANGED <<queue, handlers, published, dispatched, om, risk, ex, pt, metrics,
                   delivered, subscriptions, strategy, draws>>

\* bus.run(max_events) returns to the caller.
BusRunReturns ==
    /\ phase = "run"
    /\ EventBus_run_return
    /\ phase' = "feed"
    /\ UNCHANGED <<queue, handlers, published, dispatched, om, risk, ex, pt, metrics,
                   delivered, subscriptions, strategy, draws>>

NextBus ==
    \/ BusPublishes
    \/ BusRuns
    \/ EventBus_run_dispatch
    \/ BusRunReturns

SpecBus == InitBus /\ [][NextBus]_vars

----------------------------------------------------------------------------
(* Claims about the EventBus (SpecBus). *)

\* The handlers subscribed to a kind, in the order of their subscription.
SubscribedTo(kind) ==
    LET subs == SelectSeq(subscriptions, LAMBDA r : r[1] = kind)
    IN  [k \in DOMAIN subs |-> subs[k][2]]

\* The handlers called with the event at place i of the dispatch history, in call order.
CallsAt(i) ==
    LET calls == SelectSeq(delivered, LAMBDA d : d.at = i)
    IN  [k \in DOMAIN calls |-> calls[k].handler]

\* A handler raised on the event at place i of the dispatch history.
RaisedAt(i) == \E k \in DOMAIN delivered : delivered[k].at = i /\ delivered[k].raised

RunReturned == phase = "feed" /\ ~loop.active /\ ~loop.raised

\* The events that waited in the queue when the last run was entered.
AvailableAtEntry == loop.entered.published - loop.entered.dispatched

\* C12: once run(max_events=n), entered with at least n events in the queue,
\* has returned, it has dispatched exactly the first n of them, in their order
\* in the queue; the others, and those published since, wait in the queue in
\* their order of publication (a later run dispatches them first);
\* run(max_events=0) dispatches nothing.
C12_MaxEventsDispatchesFirstN ==
    (RunReturned /\ loop.max_events # NoLimit /\ AvailableAtEntry >= loop.max_events[1]) =>
        LET n == loop.max_events[1]
            d == loop.entered.dispatched
        IN  /\ Len(dispatched) = d + n
            /\ SubSeq(dispatched, d + 1, d + n) = SubSeq(published, d + 1, d + n)
            /\ queue = SubSeq(published, d + n + 1, Len(published))
            /\ n = 0 => Len(delivered) = Cardinality({k \in DOMAIN delivered :
                                                        delivered[k].at <= d})

\* C12, witness: a second run, with max_events=2 and three events waiting,
\* has returned after two events and has left the third one in the queue; the
\* run before it had dispatched an event.
C12_Witness ==
    /\ RunReturned
    /\ loop.max_events = <<2>>
    /\ loop.entered.dispatched >= 1
    /\ AvailableAtEntry >= 3
    /\ Len(dispatched) = loop.entered.dispatched + 2
    /\ queue # <<>>

\* The fills of a symbol that the PortfolioTracker was called with.
FillsHandled(sym) ==
    {i \in Places(dispatched, {"FillEvent"}) :
        /\ dispatched[i].symbol = sym
        /\ \E k \in DOMAIN delivered :
              delivered[k].at = i /\ delivered[k].handler = "PortfolioTracker._on_fill"}

\* The signed sum of the quantities of the fills at the places P.
RECURSIVE SignedQuantity(_)
SignedQuantity(P) ==
    IF P = {} THEN 0
    ELSE LET i == CHOOSE x \in P : TRUE
         IN  (IF dispatched[i].direction = "BUY"
              THEN dispatched[i].quantity ELSE -dispatched[i].quantity)
                + SignedQuantity(P \ {i})

\* C13: when a handler has raised on the event e, run() is over and the
\* exception is with the caller: the handlers called with e are those
\* subscribed up to the one that raised and none after it; e is the last
\* event dispatched; the events behind e wait in the queue in their order and
\* e is not among them; what the handlers did before the failure is kept: the
\* position of the PortfolioTracker counts every fill it was called with, e
\* included, and the PortfolioUpdateEvent of each of these fills is published.
C13_RaiseAbortsRunWithoutRollback ==
    loop.raised =>
        LET i == Len(dispatched)
            hs == SubscribedTo(dispatched[i].kind)
            k == Len(CallsAt(i))
        IN  /\ ~loop.active
            /\ phase = "raised"
            /\ i = loop.entered.dispatched + loop.processed + 1
            /\ k >= 1 /\ k <= Len(hs)
            /\ CallsAt(i) = SubSeq(hs, 1, k)
            /\ delivered[Len(delivered)] = [handler |-> hs[k], at |-> i, raised |-> TRUE]
            /\ Cardinality({j \in DOMAIN delivered : delivered[j].at = i
                                                       /\ delivered[j].raised}) = 1
            /\ queue = SubSeq(published, i + 1, Len(published))
            /\ Get(pt.positions, TestSymbol, 0) = SignedQuantity(FillsHandled(TestSymbol))
            /\ Cardinality(Places(published, {"PortfolioUpdateEvent"}))
                  = Cardinality(FillsHandled(TestSymbol))

\* C13, witness: a handler raised on a fill that the PortfolioTracker had
\* handled before it, with a handler subscribed after the one that raised and
\* with an event waiting behind the fill.
C13_Witness ==
    /\ loop.raised
    /\ LET i == Len(dispatched)
       IN  /\ dispatched[i].kind = "FillEvent"
           /\ i \in FillsHandled(TestSymbol)
           /\ Len(CallsAt(i)) < Len(SubscribedTo("FillEvent"))
           /\ Len(queue) >= 2

\* C14: the dispatch of an event whose kind has no subscription calls no
\* handler, raises nothing, publishes nothing and changes no component: the
\* event leaves the queue, the events behind it keep their order, and run()
\* goes on.
C14_NoSubscriberIsNoOp ==
    [][(/\ loop.active
        /\ Len(dispatched') = Len(dispatched) + 1
        /\ SubscribedTo(Head(queue).kind) = <<>>)
       => /\ queue' = Tail(queue)
          /\ dispatched' = Append(dispatched, Head(queue))
          /\ delivered' = delivered
          /\ published' = published
          /\ UNCHANGED <<om, risk, ex, pt, metrics, strategy, handlers, subscriptions, phase>>
          /\ loop' = [loop EXCEPT !.processed = @ + 1]]_vars

\* C14, witness: an event without subscription was dispatched, and after it,
\* in the same run, an event that has handlers.
C14_Witness ==
    \E i, j \in DOMAIN dispatched :
        /\ i < j
        /\ loop.entered.dispatched < i
        /\ SubscribedTo(dispatched[i].kind) = <<>>
        /\ CallsAt(j) # <<>>

----------------------------------------------------------------------------
(* The PortfolioTracker on the fills of one symbol, at several prices and   *)
(* quantities (tests/test_portfolio_tracker.py, test_realized_pnl_on_sell). *)

\* The most fills the caller publishes for the round trips.
MaxRoundTripEvents == 3

\* The <<quantity, fill price>> of these fills: 1 share at two prices, 2
\* shares at three (1.0000, 1.5000, 2.0000).
RoundTripLots ==
    {<<1, 10000>>, <<1, 20000>>, <<2, 10000>>, <<2, 15000>>, <<2, 20000>>}

\* bus.publish(_make_fill(direction, qty, price)) by the caller.
CallerPublishesLot ==
    /\ phase = "feed"
    /\ Len(published) < MaxRoundTripEvents
    /\ \E dir \in {"BUY", "SELL"}, lot \in RoundTripLots :
          EventBus_publish(FillEvent(Len(published) + 1, Len(published) + 1, TestSymbol,
                                     TestTimestamp, dir, lot[1], lot[2],
                                     lot[1] * DefaultCommissionPerShare))
    /\ UNCHANGED <<handlers, loop, dispatched, phase, om, risk, ex, pt, metrics,
                   delivered, subscriptions, strategy, draws>>

NextRoundTrip ==
    \/ CallerPublishesLot
    \/ EngineRun
    \/ EventBus_run_dispatch
    \/ EngineDone

SpecRoundTrip == InitTracker /\ [][NextRoundTrip]_vars

\* The PortfolioUpdateEvent published for the fill at place i of the dispatch history.
UpdateOfFill(i) ==
    published[Nth(Places(published, {"PortfolioUpdateEvent"}),
                  Cardinality({j \in Places(dispatched, {"FillEvent"}) : j <= i}))]

\* The fills of a symbol handled before place i of the dispatch history.
FillsBefore(i, sym) == FillsUpTo(i, sym) \ {i}

\* The realized P&L of a symbol before the fill at place i: that of the update
\* of the symbol's fill before it, 0 if there is none.
RealizedBefore(i, sym) ==
    IF FillsBefore(i, sym) = {} THEN 0
    ELSE UpdateOfFill(Last(FillsBefore(i, sym))).realized_pnl

\* The fills at places i and j are a round trip of a symbol: from a flat
\* position a BUY of N shares at b, then a SELL of N shares at s > b.
IsRoundTrip(i, j) ==
    LET buy == dispatched[i]
        sell == dispatched[j]
    IN  /\ i < j
        /\ buy.kind = "FillEvent" /\ sell.kind = "FillEvent"
        /\ buy.symbol = sell.symbol
        /\ FillsBefore(j, sell.symbol) = FillsBefore(i, buy.symbol) \cup {i}
        /\ SignedSum(FillsBefore(i, buy.symbol)) = 0
        /\ buy.direction = "BUY" /\ sell.direction = "SELL"
        /\ buy.quantity = sell.quantity
        /\ sell.fill_price > buy.fill_price

C16_AvgCostZeroIffFlat ==
    \A sym \in DOMAIN pt.positions :
        (Get(pt.avg_cost, sym, FInt(0)) = FInt(0)) <=> (pt.positions[sym] = 0)

----------------------------------------------------------------------------
(* Claims about the equity and the cash of the PortfolioTracker            *)
(* (SpecTracker).                                                          *)

\* The bars of a symbol that the tracker has seen: those dispatched.
BarsSeen(sym) == {i \in Places(dispatched, {"MarketDataEvent"}) : dispatched[i].symbol = sym}

\* The price of a symbol for the equity: the close of the last bar seen, or
\* the average cost of the tracker when no bar of the symbol was seen.
MarkPrice(sym) ==
    IF BarsSeen(sym) # {} THEN FInt(dispatched[Last(BarsSeen(sym))].close)
    ELSE Get(pt.avg_cost, sym, FInt(0))

\* The last event dispatched is a fill: the tracker is in the state in which
\* it published the last PortfolioUpdateEvent.
JustFilled ==
    /\ dispatched # <<>>
    /\ dispatched[Len(dispatched)].kind = "FillEvent"

\* C17: the equity of the PortfolioUpdateEvent of a fill is the cash of the
\* tracker after the fill plus, over the symbols with a recorded position,
\* position x price, the price being the close of the last MarketDataEvent
\* seen for the symbol, or its average cost when none was seen (rounded to 4
\* decimals); the update carries that cash.
C17_EquityIsCashPlusMarkedPositions ==
    JustFilled =>
        LET u == published[Len(published)]
            value == [s \in DOMAIN pt.positions |->
                         FMul(FInt(pt.positions[s]), MarkPrice(s))]
        IN  /\ u.kind = "PortfolioUpdateEvent"
            /\ u.cash = pt.cash
            /\ u.equity = Round4(FAdd(FInt(pt.cash), SumOver(DOMAIN pt.positions, value)))

\* C17, witness: after a fill the tracker holds two symbols, one with a bar
\* seen whose close is not its average cost, the other without a bar.
C17_Witness ==
    /\ JustFilled
    /\ \E a, b \in DOMAIN pt.positions :
          /\ pt.positions[a] # 0 /\ pt.positions[b] # 0
          /\ BarsSeen(a) # {} /\ MarkPrice(a) # pt.avg_cost[a]
          /\ BarsSeen(b) = {} /\ pt.avg_cost[b] # FInt(0)

\* The cash flow of the fills at the places P: - (fill_price x quantity +
\* commission) for a BUY, + (fill_price x quantity - commission) for a SELL.
RECURSIVE CashFlow(_)
CashFlow(P) ==
    IF P = {} THEN 0
    ELSE LET i == CHOOSE x \in P : TRUE
             f == dispatched[i]
         IN  (IF f.direction = "BUY"
              THEN 0 - (f.fill_price * f.quantity + f.commission)
              ELSE f.fill_price * f.quantity - f.commission)
                + CashFlow(P \ {i})

\* C18: the cash of the tracker is starting_cash minus (fill_price x quantity
\* + commission) for every BUY fill it has handled plus (fill_price x quantity
\* - commission) for every SELL fill, over all symbols; the cash of each
\* PortfolioUpdateEvent is this sum up to its fill.
C18_CashIsStartingCashPlusFlows ==
    /\ pt.cash = metrics.starting_equity + CashFlow(Places(dispatched, {"FillEvent"}))
    /\ \A i \in Places(dispatched, {"FillEvent"}) :
          UpdateOfFill(i).cash = metrics.starting_equity
              + CashFlow({j \in Places(dispatched, {"FillEvent"}) : j <= i})

\* C18, witness: three fills were handled, BUY and SELL, of both symbols.
C18_Witness ==
    /\ phase = "done"
    /\ \E i, j, k \in Places(dispatched, {"FillEvent"}) :
          /\ i < j /\ j < k
          /\ dispatched[i].direction = "BUY" /\ dispatched[j].direction = "SELL"
          /\ dispatched[i].symbol # dispatched[k].symbol
    /\ pt.cash # metrics.starting_equity

\* The events that the handler h was called with, as places of the dispatch history.
HandledBy(h) == {delivered[k].at : k \in {x \in DOMAIN delivered : delivered[x].handler = h}}

\* C19: the PortfolioUpdateEvents published are one for each FillEvent that
\* the PortfolioTracker has handled, in the order of the fills, each with the
\* symbol and the timestamp of its fill; none is published for a
\* MarketDataEvent it has handled.
C19_OneUpdatePerFill ==
    LET F == HandledBy("PortfolioTracker._on_fill")
        U == Places(published, {"PortfolioUpdateEvent"})
    IN  /\ F = Places(dispatched, {"FillEvent"})
        /\ HandledBy("PortfolioTracker._on_market_data")
              = Places(dispatched, {"MarketDataEvent"})
        /\ Cardinality(U) = Cardinality(F)
        /\ \A k \in 1..Cardinality(F) :
              LET f == dispatched[Nth(F, k)]
                  u == published[Nth(U, k)]
              IN  /\ u.symbol = f.symbol
                  /\ u.timestamp = f.timestamp

\* C19, witness: the tracker has handled a fill, then a bar, then a fill of
\* another timestamp, and two updates are published.
C19_Witness ==
    /\ \E i, j, k \in DOMAIN dispatched :
          /\ i < j /\ j < k
          /\ dispatched[i].kind = "FillEvent"
          /\ dispatched[j].kind = "MarketDataEvent"
          /\ dispatched[k].kind = "FillEvent"
          /\ dispatched[i].timestamp # dispatched[k].timestamp
    /\ Cardinality(Places(published, {"PortfolioUpdateEvent"})) = 2

----------------------------------------------------------------------------
(* A claim about what the answers of the RiskManager carry (Spec). *)

\* C20: the answers of the RiskManager follow the orders it has handled, one
\* for one; an ApprovedOrderEvent carries the order_id, symbol, timestamp,
\* order_type, direction, quantity and price of its OrderEvent, unchanged; a
\* RiskVetoEvent carries the order_id, symbol and timestamp of its OrderEvent.
C20_AnswerCarriesTheOrder ==
    LET O == Places(dispatched, {"OrderEvent"})
        A == Places(published, {"ApprovedOrderEvent", "RiskVetoEvent"})
    IN  /\ Cardinality(A) = Cardinality(O)
        /\ \A k \in 1..Cardinality(O) :
              LET o == dispatched[Nth(O, k)]
                  a == published[Nth(A, k)]
              IN  /\ a.order_id = o.order_id
                  /\ a.symbol = o.symbol
                  /\ a.timestamp = o.timestamp
                  /\ a.kind = "ApprovedOrderEvent" =>
                        /\ a.order_type = o.order_type
                        /\ a.direction = o.direction
                        /\ a.quantity = o.quantity
                        /\ a.price = o.price

\* C20, witness: two orders were approved that differ in order_id, symbol,
\* timestamp, direction and price.
C20_Witness ==
    \E i, j \in Places(published, {"ApprovedOrderEvent"}) :
        /\ published[i].order_id # published[j].order_id
        /\ published[i].symbol # published[j].symbol
        /\ published[i].timestamp # published[j].timestamp
        /\ published[i].direction # published[j].direction
        /\ published[i].price # published[j].price
        /\ published[i].price > 0 /\ published[j].price > 0


----------------------------------------------------------------------------
(* The ExecutionSimulator alone on a bus (tests/test_execution.py): the    *)
(* caller publishes ApprovedOrderEvents, then runs the bus; a list         *)
(* collects the FillEvents.                                                *)

\* The most orders the caller publishes to the ExecutionSimulator.
MaxExecutionEvents == 3

\* The <<symbol, direction, quantity, price>> of the orders the caller
\* publishes: the 200.0 of the test, 150.67 (a price whose basis point is not
\* a whole number of 10^-4), no price (0.0) and a price below 0.
ExecutionOrders ==
    { <<"AAPL", "BUY", 1, 2000000>>, <<"AAPL", "SELL", 2, 0>>,
      <<"MSFT", "SELL", 2, 1506700>>, <<"MSFT", "BUY", 1, -10000>> }

ExecutionRegistrations ==
    << <<"FillEvent", "fills.append">>,
       <<"ApprovedOrderEvent", "ExecutionSimulator._on_order">> >>

InitExecution ==
    /\ \E cfg \in EngineConfigs : cfg.quantity = 1 /\ Construct(cfg)
    /\ handlers = subscribe(NoHandlers, ExecutionRegistrations)
    /\ subscriptions = ExecutionRegistrations
    /\ strategy = NoStrategy

\* bus.publish(ApprovedOrderEvent(...)) by the caller: an order id and a
\* timestamp of its own.
CallerPublishesApprovedOrder ==
    /\ phase = "feed"
    /\ Len(published) < MaxExecutionEvents
    /\ \E o \in ExecutionOrders :
          EventBus_publish(ApprovedOrderEvent(Len(published) + 1, o[1],
                                              TestTimestamp + Len(published),
                                              "MARKET", o[2], o[3], o[4]))
    /\ UNCHANGED <<handlers, loop, dispatched, phase, om, risk, ex, pt, metrics,
                   delivered, subscriptions, strategy, draws>>

NextExecution ==
    \/ CallerPublishesApprovedOrder
    \/ EngineRun
    \/ EventBus_run_dispatch
    \/ EngineDone

SpecExecution == InitExecution /\ [][NextExecution]_vars

\* The k-th approved order handled and the k-th fill published.
ApprovedHandled == Places(dispatched, {"ApprovedOrderEvent"})
FillsPublished == Places(published, {"FillEvent"})

\* C21: the FillEvents published are one for each ApprovedOrderEvent the
\* ExecutionSimulator has handled, in order, each with the order_id, symbol,
\* timestamp, direction and quantity of its order, and no two FillEvents share
\* a fill_id.
C21_OneFillPerApprovedOrder ==
    /\ HandledBy("ExecutionSimulator._on_order") = ApprovedHandled
    /\ Cardinality(FillsPublished) = Cardinality(ApprovedHandled)
    /\ \A k \in 1..Cardinality(ApprovedHandled) :
          LET o == dispatched[Nth(ApprovedHandled, k)]
              f == published[Nth(FillsPublished, k)]
          IN  /\ f.order_id = o.order_id
              /\ f.symbol = o.symbol
              /\ f.timestamp = o.timestamp
              /\ f.direction = o.direction
              /\ f.quantity = o.quantity
    /\ \A i, j \in FillsPublished :
          i # j => published[i].fill_id # published[j].fill_id

\* C21, witness: three fills are published, for orders that differ in
\* symbol, direction and quantity.
C21_Witness ==
    /\ Cardinality(FillsPublished) = 3
    /\ \E i, j \in FillsPublished :
          /\ published[i].symbol # published[j].symbol
          /\ published[i].direction # published[j].direction
          /\ published[i].quantity # published[j].quantity
          /\ published[i].order_id # published[j].order_id

\* The band of the k-th fill: reference x slippage_bps / 10000, in ticks.
ReferenceOf(o) == IF o.price > 0 THEN o.price ELSE 1500000
SlippageBand(o) == Frac(ReferenceOf(o) * ex.slippage_bps, 10000)
SlippageOf(o, f) == FInt(Abs(f.fill_price - ReferenceOf(o)))

----------------------------------------------------------------------------
(* The OrderManager alone on a bus (tests/test_order_manager.py): the      *)
(* caller publishes SignalEvents and MarketDataEvents, then runs the bus;  *)
(* a list collects the OrderEvents.                                        *)

\* The most events the caller publishes to the OrderManager.
MaxOrderManagerEvents == 3

\* OrderManager(quantity): the constructor takes any integer.
OrderManagerLots == {-1, 0, 1, 250}

\* The <<symbol, direction>> of the signals and the <<symbol, close>> of the
\* bars the caller publishes.
OrderManagerSignals == { <<"AAPL", "BUY">>, <<"AAPL", "HOLD">>, <<"MSFT", "SELL">> }
OrderManagerBars == { <<"AAPL", 10000>>, <<"AAPL", 20000>>, <<"MSFT", 10000>> }

OrderManagerRegistrations ==
    << <<"OrderEvent", "orders.append">>,
       <<"MarketDataEvent", "OrderManager._on_market_data">>,
       <<"SignalEvent", "OrderManager._on_signal">> >>

InitOrderManager ==
    /\ \E cfg \in EngineConfigs, quantity \in OrderManagerLots :
          cfg.quantity = 1 /\ Construct([cfg EXCEPT !.quantity = quantity])
    /\ handlers = subscribe(NoHandlers, OrderManagerRegistrations)
    /\ subscriptions = OrderManagerRegistrations
    /\ strategy = NoStrategy

\* bus.publish(SignalEvent(...)) by the caller, with a timestamp of its own.
CallerPublishesSignal ==
    /\ phase = "feed"
    /\ Len(published) < MaxOrderManagerEvents
    /\ \E sig \in OrderManagerSignals, strength \in Strengths :
          EventBus_publish(SignalEvent(sig[1], TestTimestamp + Len(published),
                                       sig[2], strength))
    /\ UNCHANGED <<handlers, loop, dispatched, phase, om, risk, ex, pt, metrics,
                   delivered, subscriptions, strategy, draws>>

\* bus.publish(MarketDataEvent(...)) by the caller.
CallerPublishesClose ==
    /\ phase = "feed"
    /\ Len(published) < MaxOrderManagerEvents
    /\ \E bar \in OrderManagerBars :
          EventBus_publish(MarketDataEvent(bar[1], TestTimestamp + Len(published),
                                           bar[2]))
    /\ UNCHANGED <<handlers, loop, dispatched, phase, om, risk, ex, pt, metrics,
                   delivered, subscriptions, strategy, draws>>

NextOrderManager ==
    \/ CallerPublishesSignal
    \/ CallerPublishesClose
    \/ EngineRun
    \/ EventBus_run_dispatch
    \/ EngineDone

SpecOrderManager == InitOrderManager /\ [][NextOrderManager]_vars

\* The non-HOLD signals handled and the orders published.
SignalsToTrade ==
    {i \in Places(dispatched, {"SignalEvent"}) : dispatched[i].direction # "HOLD"}
OrdersPublished == Places(published, {"OrderEvent"})

\* The bars of a symbol that the OrderManager has handled before place i.
ClosesHandledBefore(i, sym) ==
    {j \in HandledBy("OrderManager._on_market_data") :
        j < i /\ dispatched[j].symbol = sym}

C24_QuantityPositive ==
    \A i \in Places(published, {"OrderEvent", "ApprovedOrderEvent", "FillEvent"}) :
        published[i].quantity > 0

----------------------------------------------------------------------------
(* A strategy alone on a bus (tests/test_ma_crossover.py,                  *)
(* tests/test_rsi_strategy.py): the caller publishes the bars of one or    *)
(* two symbols, then runs the bus; a list collects the SignalEvents.       *)

\* The most bars the caller publishes to the strategy.
MaxStrategyBars == 4

\* The closes of the bars: 1.0 and 5.0.
StrategyCloses == {10000, 50000}

\* The thresholds of the RSIStrategy: its defaults.
DefaultOverbought == 70
DefaultOversold == 30

\* The strategies of the model: fast 1 and 2 with slow 3, period 2 and 3.
StrategyConfigs ==
    { MACrossoverStrategy_init(1, 3), MACrossoverStrategy_init(2, 3),
      RSIStrategy_init(2, DefaultOverbought, DefaultOversold),
      RSIStrategy_init(3, DefaultOverbought, DefaultOversold) }

\* The handler that a strategy subscribes to MarketDataEvent.
StrategyHandler(st) ==
    IF st.name = "MACrossoverStrategy" THEN "MACrossoverStrategy._on_market_data"
    ELSE "RSIStrategy._on_market_data"

StrategyRegistrations(st) ==
    << <<"SignalEvent", "signals.append">>,
       <<"MarketDataEvent", StrategyHandler(st)>> >>

InitStrategy ==
    /\ \E cfg \in EngineConfigs : cfg.quantity = 1 /\ Construct(cfg)
    /\ strategy \in StrategyConfigs
    /\ handlers = subscribe(NoHandlers, StrategyRegistrations(strategy))
    /\ subscriptions = StrategyRegistrations(strategy)

\* bus.publish(_make_event(symbol, close, i)) by the caller.
CallerPublishesPrice ==
    /\ phase = "feed"
    /\ Len(published) < MaxStrategyBars
    /\ \E sym \in Symbols, close \in StrategyCloses :
          EventBus_publish(MarketDataEvent(sym, Len(published) + 1, close))
    /\ UNCHANGED <<handlers, loop, dispatched, phase, om, risk, ex, pt, metrics,
                   delivered, subscriptions, strategy, draws>>

NextStrategy ==
    \/ CallerPublishesPrice
    \/ EngineRun
    \/ EventBus_run_dispatch
    \/ EngineDone

SpecStrategy == InitStrategy /\ [][NextStrategy]_vars

\* The bars handled, and the signal published for the bar at place i of the
\* dispatch history: the strategy publishes one signal for every bar.
BarsHandled == Places(dispatched, {"MarketDataEvent"})
SignalsPublished == Places(published, {"SignalEvent"})
SignalOfBar(i) ==
    published[Nth(SignalsPublished, Cardinality({j \in BarsHandled : j <= i}))]

\* The closes of the bars of the symbol of bar i, up to bar i, oldest first.
ClosesUpTo(i) ==
    LET B == {j \in BarsSeen(dispatched[i].symbol) : j <= i}
    IN  [k \in 1..Cardinality(B) |-> dispatched[Nth(B, k)].close]

\* The closes cs without the last one.
Before(cs) == SubSeq(cs, 1, Len(cs) - 1)

\* The simple moving average of the last n of the closes cs.
Sma(cs, n) ==
    FDiv(SumOver((Len(cs) - n + 1)..Len(cs), [k \in DOMAIN cs |-> FInt(cs[k])]),
         FInt(n))

\* The fast average crosses the slow one upwards, or downwards, at the last
\* of the closes cs.
CrossesUp(cs, fast, slow) ==
    /\ Len(cs) > slow
    /\ FLeq(Sma(Before(cs), fast), Sma(Before(cs), slow))
    /\ FLess(Sma(cs, slow), Sma(cs, fast))
CrossesDown(cs, fast, slow) ==
    /\ Len(cs) > slow
    /\ FLeq(Sma(Before(cs), slow), Sma(Before(cs), fast))
    /\ FLess(Sma(cs, fast), Sma(cs, slow))

\* C25: for every bar that finds the window of its symbol full, the
\* MACrossoverStrategy emits BUY exactly when the previous SMA pair had
\* fast <= slow and the current one has fast > slow, SELL exactly when the
\* previous pair had fast >= slow and the current one has fast < slow, and
\* HOLD otherwise; the two conditions never hold together.
C25_CrossoverDirections ==
    strategy.name = "MACrossoverStrategy" =>
        /\ Cardinality(SignalsPublished) = Cardinality(BarsHandled)
        /\ \A i \in BarsHandled :
              LET cs == ClosesUpTo(i)
                  up == CrossesUp(cs, strategy.fast, strategy.slow)
                  down == CrossesDown(cs, strategy.fast, strategy.slow)
                  direction == SignalOfBar(i).direction
              IN  Len(cs) >= strategy.slow =>
                    /\ direction = "BUY" <=> up
                    /\ direction = "SELL" <=> down
                    /\ direction \in {"BUY", "SELL", "HOLD"}
                    /\ ~(up /\ down)

\* C25, witness: a BUY was emitted where the previous pair had fast = slow.
C25_Witness ==
    /\ strategy.name = "MACrossoverStrategy"
    /\ \E i \in BarsHandled :
          /\ SignalOfBar(i).direction = "BUY"
          /\ Sma(Before(ClosesUpTo(i)), strategy.fast)
                = Sma(Before(ClosesUpTo(i)), strategy.slow)

\* C26: for each symbol, the MACrossoverStrategy emits HOLD with strength 0
\* for the first slow - 1 bars of that symbol and HOLD for its slow-th bar.
C26_HoldUntilWindowFull ==
    strategy.name = "MACrossoverStrategy" =>
        \A i \in BarsHandled :
            LET n == Len(ClosesUpTo(i))
                sig == SignalOfBar(i)
            IN  /\ n < strategy.slow => sig.direction = "HOLD" /\ sig.strength = 0
                /\ n = strategy.slow => sig.direction = "HOLD"

\* C26, witness: the slow-th bar of a symbol found the two averages apart,
\* and a later bar was among the first slow - 1 of the other symbol.
C26_Witness ==
    /\ strategy.name = "MACrossoverStrategy"
    /\ \E i, j \in BarsHandled :
          /\ i < j
          /\ Len(ClosesUpTo(i)) = strategy.slow
          /\ SignalOfBar(i).strength > 0
          /\ dispatched[j].symbol # dispatched[i].symbol
          /\ Len(ClosesUpTo(j)) < strategy.slow

\* The changes of the last n + 1 of the closes cs, the places of the gains
\* and of the losses among them, and their sums.
Deltas(cs, n) ==
    [k \in 1..n |-> cs[Len(cs) - n + k] - cs[Len(cs) - n + k - 1]]
Ups(ds) == {k \in DOMAIN ds : ds[k] > 0}
Downs(ds) == {k \in DOMAIN ds : ds[k] < 0}
SumOfGains(ds) == SumOver(Ups(ds), [k \in DOMAIN ds |-> FInt(ds[k])])
SumOfLosses(ds) == SumOver(Downs(ds), [k \in DOMAIN ds |-> FInt(-ds[k])])

\* RSI = 100 when avg_loss is 0, else 100 - 100 / (1 + avg_gain / avg_loss).
RsiFrom(avg_gain, avg_loss) ==
    IF avg_loss = FInt(0) THEN FInt(100)
    ELSE FSub(FInt(100), FDiv(FInt(100), FAdd(FInt(1), FDiv(avg_gain, avg_loss))))

\* The RSI with the sums of the gains and of the losses divided by the
\* number of changes.
RsiOverPeriod(ds) ==
    RsiFrom(FDiv(SumOfGains(ds), FInt(Len(ds))), FDiv(SumOfLosses(ds), FInt(Len(ds))))

\* The RSI with the mean of the gains and the mean of the losses.
MeanOver(S, sum) == IF S = {} THEN FInt(0) ELSE FDiv(sum, FInt(Cardinality(S)))
RsiOfMeans(ds) ==
    RsiFrom(MeanOver(Ups(ds), SumOfGains(ds)), MeanOver(Downs(ds), SumOfLosses(ds)))

\* The RSI crosses below oversold, or above overbought, at the last of the
\* closes cs.
CrossesBelow(cs, period, oversold) ==
    /\ Len(cs) > period + 1
    /\ FLeq(FInt(oversold), RsiOverPeriod(Deltas(Before(cs), period)))
    /\ FLess(RsiOverPeriod(Deltas(cs, period)), FInt(oversold))
CrossesAbove(cs, period, overbought) ==
    /\ Len(cs) > period + 1
    /\ FLeq(RsiOverPeriod(Deltas(Before(cs), period)), FInt(overbought))
    /\ FLess(FInt(overbought), RsiOverPeriod(Deltas(cs, period)))

\* C27: the RSIStrategy emits BUY exactly when the previous RSI of the
\* symbol was >= oversold and the current one is < oversold, SELL exactly
\* when the previous RSI was <= overbought and the current one is
\* > overbought, and HOLD otherwise: on the bars before period + 1 closes
\* were seen, on the first bar with an RSI, and when no threshold is crossed.
C27_ZoneCrossings ==
    strategy.name = "RSIStrategy" =>
        /\ Cardinality(SignalsPublished) = Cardinality(BarsHandled)
        /\ \A i \in BarsHandled :
              LET cs == ClosesUpTo(i)
                  buy == CrossesBelow(cs, strategy.period, strategy.oversold)
                  sell == CrossesAbove(cs, strategy.period, strategy.overbought)
                  direction == SignalOfBar(i).direction
              IN  /\ direction = "BUY" <=> buy
                  /\ direction = "SELL" <=> sell
                  /\ direction \in {"BUY", "SELL", "HOLD"}
                  /\ Len(cs) <= strategy.period + 1 => direction = "HOLD"

\* C27, witness: a BUY was emitted, after a first RSI of the symbol that was
\* above overbought and emitted HOLD.
C27_Witness ==
    /\ strategy.name = "RSIStrategy"
    /\ \E i, j \in BarsHandled :
          /\ dispatched[i].symbol = dispatched[j].symbol
          /\ Len(ClosesUpTo(i)) = strategy.period + 1
          /\ FLess(FInt(strategy.overbought),
                   RsiOverPeriod(Deltas(ClosesUpTo(i), strategy.period)))
          /\ SignalOfBar(i).direction = "HOLD"
          /\ SignalOfBar(j).direction = "BUY"

\* The changes of the window of period + 1 closes of a symbol whose window
\* is full.
WindowChanges(sym) == Deltas(ClosesUpTo(Last(BarsSeen(sym))), strategy.period)

\* C28, as claimed: the RSI of a full window is 100 when avg_loss is 0 and
\* 100 - 100 / (1 + avg_gain / avg_loss) otherwise, with avg_gain the mean of
\* the positive changes and avg_loss the mean of the sizes of the negative
\* changes (0 when there are none).
C28_RsiOfMeans ==
    strategy.name = "RSIStrategy" =>
        \A sym \in DOMAIN strategy.prev_rsi :
            strategy.prev_rsi[sym] = RsiOfMeans(WindowChanges(sym))

\* C28, amended: avg_gain is the sum of the positive changes divided by
\* period and avg_loss the sum of the sizes of the negative changes divided
\* by period (the changes of the other sign count as 0 in each mean).
C28_RsiOverPeriod ==
    strategy.name = "RSIStrategy" =>
        \A sym \in DOMAIN strategy.prev_rsi :
            strategy.prev_rsi[sym] = RsiOverPeriod(WindowChanges(sym))

\* C28, witness: an RSI was computed for a window with gains and losses in
\* different numbers.
C28_Witness ==
    /\ strategy.name = "RSIStrategy"
    /\ \E sym \in DOMAIN strategy.prev_rsi :
          LET ds == WindowChanges(sym)
          IN  /\ Ups(ds) # {} /\ Downs(ds) # {}
              /\ Cardinality(Ups(ds)) # Cardinality(Downs(ds))

\* C29: the strength of every SignalEvent of a strategy is in [0, 1]
\* (0 to 10^6 in the unit of round(x, 6)).
C29_StrengthInUnitInterval ==
    \A i \in SignalsPublished :
        published[i].strength >= 0 /\ published[i].strength <= 1000000

\* A strategy with the parameters of st and no state.
FreshStrategy(st) ==
    IF st.name = "MACrossoverStrategy" THEN MACrossoverStrategy_init(st.fast, st.slow)
    ELSE RSIStrategy_init(st.period, st.overbought, st.oversold)

\* The bus of a second run, on which the handler of the strategy is called
\* with the given bars only.
RECURSIVE RunAlone(_, _)
RunAlone(w, bars) ==
    IF bars = <<>> THEN w
    ELSE RunAlone(Call(StrategyHandler(w.strategy), w, Head(bars), NoDraw), Tail(bars))

\* The <<direction, strength>> of the signals of a symbol in a log.
SignalsOf(log, sym) ==
    LET sigs == SelectSeq(log, LAMBDA e : e.kind = "SignalEvent" /\ e.symbol = sym)
    IN  [k \in DOMAIN sigs |-> <<sigs[k].direction, sigs[k].strength>>]

\* C30: the signals of a symbol are those of a run in which a strategy with
\* the same parameters is fed the bars of that symbol only, whatever bars of
\* the other symbol come between them.
C30_SignalsDependOnOwnBars ==
    \A sym \in Symbols :
        LET own == SelectSeq(dispatched,
                             LAMBDA e : e.kind = "MarketDataEvent" /\ e.symbol = sym)
            alone == RunAlone([queue |-> <<>>, published |-> <<>>,
                               strategy |-> FreshStrategy(strategy)], own)
        IN  SignalsOf(published, sym) = SignalsOf(alone.published, sym)

\* C30, witness: a bar of the other symbol came between two bars of a symbol
\* whose window then became full, with a strength above 0.
C30_Witness ==
    \E i, j, k \in BarsHandled :
        /\ i < j /\ j < k
        /\ dispatched[i].symbol = dispatched[k].symbol
        /\ dispatched[j].symbol # dispatched[i].symbol
        /\ SignalOfBar(k).strength > 0

----------------------------------------------------------------------------
(* Any of the three strategies alone on a bus (tests/test_signal.py,       *)
(* tests/test_ma_crossover.py, tests/test_rsi_strategy.py): the caller     *)
(* publishes bars, then runs the bus; a list collects the SignalEvents.    *)

\* The most bars the caller publishes.
MaxSignalBars == 3

\* The strategies: the windowed ones and the random SignalGenerator.
SignalSources == StrategyConfigs \cup {SignalGenerator_init}

\* The handler that a signal source subscribes to MarketDataEvent.
SignalHandler(st) ==
    IF st.name = "SignalGenerator" THEN "SignalGenerator._on_market_data"
    ELSE StrategyHandler(st)

SignalRegistrations(st) ==
    << <<"SignalEvent", "signals.append">>,
       <<"MarketDataEvent", SignalHandler(st)>> >>

InitSignals ==
    /\ \E cfg \in EngineConfigs : cfg.quantity = 1 /\ Construct(cfg)
    /\ strategy \in SignalSources
    /\ handlers = subscribe(NoHandlers, SignalRegistrations(strategy))
    /\ subscriptions = SignalRegistrations(strategy)

\* bus.publish(bar) by the caller or by the feed.
CallerPublishesMarketData ==
    /\ phase = "feed"
    /\ Len(published) < MaxSignalBars
    /\ \E sym \in Symbols, close \in StrategyCloses :
          EventBus_publish(MarketDataEvent(sym, Len(published) + 1, close))
    /\ UNCHANGED <<handlers, loop, dispatched, phase, om, risk, ex, pt, metrics,
                   delivered, subscriptions, strategy, draws>>

NextSignals ==
    \/ CallerPublishesMarketData
    \/ EngineRun
    \/ EventBus_run_dispatch
    \/ EngineDone

SpecSignals == InitSignals /\ [][NextSignals]_vars

\* C31: each strategy has published exactly one SignalEvent for every
\* MarketDataEvent it has handled, warm-up bars included, and the k-th signal
\* carries the symbol and the timestamp of the k-th bar handled.
C31_OneSignalPerBar ==
    /\ Cardinality(SignalsPublished) = Cardinality(BarsHandled)
    /\ \A k \in 1..Cardinality(BarsHandled) :
          LET bar == dispatched[Nth(BarsHandled, k)]
              sig == published[Nth(SignalsPublished, k)]
          IN  sig.symbol = bar.symbol /\ sig.timestamp = bar.timestamp

\* C31, witness: a windowed strategy has handled three warm-up bars, the
\* second of another symbol than the first and the third, and the signal of
\* the second carries its symbol and timestamp.
C31_Witness ==
    /\ strategy.name # "SignalGenerator"
    /\ \E i, j, k \in BarsHandled :
          /\ i < j /\ j < k
          /\ dispatched[i].symbol # dispatched[j].symbol
          /\ dispatched[k].symbol = dispatched[i].symbol
          /\ SignalOfBar(j).symbol = dispatched[j].symbol
          /\ SignalOfBar(j).timestamp = dispatched[j].timestamp
          /\ SignalOfBar(k).strength = 0
          /\ Len(ClosesUpTo(k)) = 2

----------------------------------------------------------------------------
(* The PerformanceMetrics alone on a bus (tests/test_metrics.py): the      *)
(* caller publishes PortfolioUpdateEvents and FillEvents, then runs the    *)
(* bus.                                                                    *)

\* The most events the caller publishes.
MaxMetricsEvents == 4

\* The equities of the updates, around the starting equity 100.0000.
MetricsEquities == {900000, 990000, 1100000, 1210000}

\* The average cost of the updates (10.0000) and the <<direction, price>> of
\* the fills (12.0000).
MetricsAvgCost == 100000
MetricsFills == {<<"BUY", 120000>>, <<"SELL", 120000>>}

MetricsRegistrations ==
    << <<"PortfolioUpdateEvent", "PerformanceMetrics._on_portfolio_update">>,
       <<"FillEvent", "PerformanceMetrics._on_fill">> >>

InitMetrics ==
    /\ \E cfg \in EngineConfigs : cfg.quantity = 1 /\ Construct(cfg)
    /\ handlers = subscribe(NoHandlers, MetricsRegistrations)
    /\ subscriptions = MetricsRegistrations
    /\ strategy = NoStrategy

\* bus.publish(_make_portfolio_event(equity)) by the caller.
CallerPublishesEquity ==
    /\ phase = "feed"
    /\ Len(published) < MaxMetricsEvents
    /\ \E equity \in MetricsEquities :
          EventBus_publish(PortfolioUpdateEvent(TestSymbol, TestTimestamp, 0,
                                                MetricsAvgCost, 0, 0, equity, equity))
    /\ UNCHANGED <<handlers, loop, dispatched, phase, om, risk, ex, pt, metrics,
                   delivered, subscriptions, strategy, draws>>

\* bus.publish(_make_fill(direction, price)) by the caller.
CallerPublishesTrade ==
    /\ phase = "feed"
    /\ Len(published) < MaxMetricsEvents
    /\ \E f \in MetricsFills :
          EventBus_publish(FillEvent(Len(published) + 1, Len(published) + 1, TestSymbol,
                                     TestTimestamp, f[1], 1, f[2], 0))
    /\ UNCHANGED <<handlers, loop, dispatched, phase, om, risk, ex, pt, metrics,
                   delivered, subscriptions, strategy, draws>>

NextMetrics ==
    \/ CallerPublishesEquity
    \/ CallerPublishesTrade
    \/ EngineRun
    \/ EventBus_run_dispatch
    \/ EngineDone

SpecMetrics == InitMetrics /\ [][NextMetrics]_vars

\* The updates received so far, and the running peak at the update at place
\* i: the greatest of the starting equity and the equities received up to it.
UpdatesReceived == Places(dispatched, {"PortfolioUpdateEvent"})
RunningPeak(i) ==
    LET E == {metrics.starting_equity} \cup
                 {dispatched[j].equity : j \in {k \in UpdatesReceived : k <= i}}
    IN  CHOOSE p \in E : \A q \in E : p >= q

\* The drop of the update at place i from the running peak, in percent.
DropAt(i) == DrawdownPct(RunningPeak(i), dispatched[i].equity)

\* The largest drop over the updates received, 0 if there is none.
LargestDrop ==
    IF UpdatesReceived = {} THEN FInt(0)
    ELSE LET i == CHOOSE x \in UpdatesReceived :
                      \A j \in UpdatesReceived : FLeq(DropAt(j), DropAt(x))
         IN  DropAt(i)

\* C32: after any sequence of PortfolioUpdateEvents, max_drawdown_pct is the
\* largest, over the equities received, of (running peak - equity) /
\* running peak x 100, and no step makes it smaller.
C32_MaxDrawdownIsLargestDrop ==
    /\ [](metrics.max_drawdown_pct = LargestDrop)
    /\ [][FLeq(metrics.max_drawdown_pct, metrics.max_drawdown_pct')]_vars

\* C32, witness: a drop from a peak above the starting equity was followed
\* by a smaller drop from a higher peak, and the larger one is kept.
C32_Witness ==
    \E i, j \in UpdatesReceived :
        /\ i < j
        /\ RunningPeak(i) > metrics.starting_equity
        /\ RunningPeak(j) > RunningPeak(i)
        /\ FLess(FInt(0), DropAt(j))
        /\ FLess(DropAt(j), DropAt(i))
        /\ metrics.max_drawdown_pct = DropAt(i)

----------------------------------------------------------------------------
(* A second run of the pipeline, for the claims that compare two runs: the *)
(* engine is built again and run on the same bars.  Every seeded generator *)
(* returns in the second run the sequence it returned in the first.        *)

\* The first tokens of str(uuid.uuid4()) in a run.  uuid4 reads the random
\* source of the operating system, which no seed governs: a second run gets
\* other tokens than the first, whose tokens start at 1.
UuidBases == {1, 101}

\* The configuration of the run, read back from the components.
ConfigOfRun ==
    [quantity |-> om.quantity, max_position |-> risk.max_position,
     max_drawdown_pct |-> risk.max_drawdown_pct,
     starting_cash |-> metrics.starting_equity,
     slippage_bps |-> ex.slippage_bps,
     commission_per_share |-> ex.commission_per_share]

\* The draws that the generator of the handler h returned in the first run,
\* in their order.
DrawsOf(h) ==
    [k \in 1..Cardinality(HandledBy(h)) |-> draws[Nth(HandledBy(h), k)]]

\* The engine built again from cfg, with the bars in the queue: what a
\* handler of the second run can reach, the uuid4 tokens starting at base.
SecondEngine(cfg, bars, base) ==
    [queue |-> bars, published |-> bars, dispatched |-> <<>>,
     om |-> [quantity |-> cfg.quantity, last_price |-> EmptyDict, next_id |-> base],
     risk |-> [max_position |-> cfg.max_position,
               max_drawdown_pct |-> cfg.max_drawdown_pct,
               positions |-> EmptyDict,
               peak_equity |-> cfg.starting_cash,
               current_equity |-> cfg.starting_cash],
     ex |-> [slippage_bps |-> cfg.slippage_bps,
             commission_per_share |-> cfg.commission_per_share, next_id |-> base],
     pt |-> [cash |-> cfg.starting_cash, positions |-> EmptyDict,
             avg_cost |-> EmptyDict, realized_pnl |-> EmptyDict,
             last_price |-> EmptyDict],
     metrics |-> [starting_equity |-> cfg.starting_cash,
                  equity_curve |-> <<cfg.starting_cash>>,
                  peak_equity |-> cfg.starting_cash,
                  max_drawdown_pct |-> FInt(0),
                  trades |-> <<>>, last_avg_cost |-> EmptyDict],
     strategy |-> SignalGenerator_init,
     delivered |-> <<>>, at |-> 1, raised |-> FALSE,
     signal_draws |-> DrawsOf("SignalGenerator._on_market_data"),
     fill_draws |-> DrawsOf("ExecutionSimulator._on_order")]

\* bus.run() of the second run, on the handlers hs, until the queue is empty
\* or a seeded generator is asked for more draws than the first run took.
RECURSIVE SecondRun(_, _)
SecondRun(w, hs) ==
    IF w.queue = <<>> THEN w
    ELSE LET got == QueueGet(w.queue)
             event == got[1]
             called == HandlersFor(hs, event.kind)
             signal == \E i \in DOMAIN called :
                          called[i] = "SignalGenerator._on_market_data"
             fill == \E i \in DOMAIN called : called[i] = "ExecutionSimulator._on_order"
         IN  IF (signal /\ w.signal_draws = <<>>) \/ (fill /\ w.fill_draws = <<>>)
             THEN w
             ELSE LET rnd == [direction |-> IF signal THEN Head(w.signal_draws).direction
                                            ELSE NoDraw.direction,
                              strength |-> IF signal THEN Head(w.signal_draws).strength
                                           ELSE NoDraw.strength,
                              u |-> IF fill THEN Head(w.fill_draws).u ELSE NoDraw.u,
                              fails |-> NoDraw.fails]
                      w1 == Invoke(called, [w EXCEPT !.queue = got[2]], event, rnd)
                  IN  SecondRun([w1 EXCEPT
                                    !.dispatched = Append(@, event),
                                    !.at = @ + 1,
                                    !.signal_draws = IF signal THEN Tail(@) ELSE @,
                                    !.fill_draws = IF fill THEN Tail(@) ELSE @],
                                hs)

\* C33: two runs of the pipeline with the same configuration, the same seed
\* and the same bars dispatch the same sequence of events and have the same
\* PerformanceReport, whatever tokens uuid4 hands out in each.
C33_SameSeedSameRun ==
    phase = "done" =>
        \A base \in UuidBases :
            LET second == SecondRun(SecondEngine(ConfigOfRun, Bars(published), base),
                                    handlers)
            IN  /\ second.dispatched = dispatched
                /\ PerformanceMetrics_report(second.metrics)
                      = PerformanceMetrics_report(metrics)

----------------------------------------------------------------------------
(* The pipeline with any of the observers (backtest/engine.py): the        *)
(* EventLogger, the SQLiteWriter and the EquityChart are registered after  *)
(* the core stages, each only if enabled.                                  *)

\* The most bars the feed publishes to the observed pipeline.
MaxObservedBars == 1

\* The register calls of the core stages, and of each observer.
CoreRegistrations == SubSeq(EngineRegistrations, 1, 10)
EventLoggerRegistrations == SubSeq(EngineRegistrations, 11, Len(EngineRegistrations))
SQLiteWriterRegistrations ==
    << <<"MarketDataEvent", "SQLiteWriter._on_market_data">>,
       <<"SignalEvent", "SQLiteWriter._on_signal">>,
       <<"OrderEvent", "SQLiteWriter._on_order">>,
       <<"ApprovedOrderEvent", "SQLiteWriter._on_approved_order">>,
       <<"RiskVetoEvent", "SQLiteWriter._on_risk_veto">>,
       <<"FillEvent", "SQLiteWriter._on_fill">>,
       <<"PortfolioUpdateEvent", "SQLiteWriter._on_portfolio_update">> >>
EquityChartRegistrations ==
    << <<"PortfolioUpdateEvent", "EquityChart._on_portfolio_update">> >>

Observers == {"EventLogger", "SQLiteWriter", "EquityChart"}

\* The register calls of the engine with the observers obs enabled.
ObservedRegistrations(obs) ==
    CoreRegistrations
        \o (IF "EventLogger" \in obs THEN EventLoggerRegistrations ELSE <<>>)
        \o (IF "SQLiteWriter" \in obs THEN SQLiteWriterRegistrations ELSE <<>>)
        \o (IF "EquityChart" \in obs THEN EquityChartRegistrations ELSE <<>>)

InitObservers ==
    /\ \E cfg \in EngineConfigs : cfg.quantity = 1 /\ Construct(cfg)
    /\ \E obs \in SUBSET Observers :
          /\ handlers = subscribe(NoHandlers, ObservedRegistrations(obs))
          /\ subscriptions = ObservedRegistrations(obs)
    /\ strategy = SignalGenerator_init

\* feed.emit(bus), one bar of it.
FeedEmitObserved ==
    /\ phase = "feed"
    /\ Len(published) < MaxObservedBars
    /\ \E sym \in Symbols, close \in Closes :
          EventBus_publish(MarketDataEvent(sym, Len(published) + 1, close))
    /\ UNCHANGED <<handlers, loop, dispatched, phase, om, risk, ex, pt, metrics,
                   delivered, subscriptions, strategy, draws>>

NextObservers ==
    \/ FeedEmitObserved
    \/ EngineRun
    \/ EventBus_run_dispatch
    \/ EngineDone

SpecObservers == InitObservers /\ [][NextObservers]_vars

\* The handlers of the observers, and the calls of the core stages' handlers
\* among the calls of a run.
ObserverHandlers ==
    {r[2] : r \in {EventLoggerRegistrations[i] : i \in DOMAIN EventLoggerRegistrations}
                    \cup {SQLiteWriterRegistrations[i] :
                               i \in DOMAIN SQLiteWriterRegistrations}
                    \cup {EquityChartRegistrations[i] :
                               i \in DOMAIN EquityChartRegistrations}}
CoreCalls(calls) == SelectSeq(calls, LAMBDA c : c.handler \notin ObserverHandlers)

\* The sequence a is the beginning of the sequence b.
IsPrefix(a, b) == Len(a) <= Len(b) /\ a = SubSeq(b, 1, Len(a))

\* The run of the same bars, with the same draws and uuid4 tokens, on a bus
\* with the core stages only.
CoreOnlyRun ==
    SecondRun(SecondEngine(ConfigOfRun, Bars(published), 1),
              subscribe(NoHandlers, CoreRegistrations))

\* C34: whatever observers are registered, the events published, the events
\* dispatched and the calls of the core stages' handlers are those of the
\* run with the core stages only (their beginning, while the run is not
\* over or after a failed INSERT has ended it), and when run() has returned
\* the PerformanceReport is that of the run with the core stages only.
C34_ObserversLeaveRunUnchanged ==
    LET core == CoreOnlyRun
    IN  /\ IsPrefix(published, core.published)
        /\ IsPrefix(dispatched, core.dispatched)
        /\ IsPrefix(CoreCalls(delivered), core.delivered)
        /\ phase = "done" =>
              /\ published = core.published
              /\ dispatched = core.dispatched
              /\ CoreCalls(delivered) = core.delivered
              /\ PerformanceMetrics_report(metrics)
                    = PerformanceMetrics_report(core.metrics)

\* C34, witness: run() has returned with the three observers registered,
\* after a fill and its PortfolioUpdateEvent went to all of them.
C34_Witness ==
    /\ phase = "done"
    /\ subscriptions = ObservedRegistrations(Observers)
    /\ \E i \in Places(dispatched, {"PortfolioUpdateEvent"}) :
          /\ i \in HandledBy("EventLogger._on_portfolio_update")
          /\ i \in HandledBy("SQLiteWriter._on_portfolio_update")
          /\ i \in HandledBy("EquityChart._on_portfolio_update")
          /\ i \in HandledBy("PerformanceMetrics._on_portfolio_update")

----------------------------------------------------------------------------
(* The report of the batch pipeline (Spec). *)

\* The fills and the updates that the PerformanceMetrics has handled.
FillsOfMetrics == HandledBy("PerformanceMetrics._on_fill")
UpdatesOfMetrics == HandledBy("PerformanceMetrics._on_portfolio_update")

\* C35: in the batch pipeline the PerformanceMetrics handles every FillEvent
\* before any PortfolioUpdateEvent, so every trade of its log has its own
\* fill price as cost basis, and the report has profitable_trades 0 and
\* win_rate 0.
C35_NoTradeCountsAsProfitable ==
    /\ \A i \in FillsOfMetrics, j \in UpdatesOfMetrics : i < j
    /\ Len(metrics.trades) = Cardinality(FillsOfMetrics)
    /\ \A k \in DOMAIN metrics.trades :
          /\ metrics.trades[k][2] = dispatched[Nth(FillsOfMetrics, k)].fill_price
          /\ metrics.trades[k][1] = metrics.trades[k][2]
    /\ PerformanceMetrics_report(metrics).profitable_trades = 0
    /\ PerformanceMetrics_report(metrics).win_rate = 0

\* C35, witness: run() has returned after a BUY of a symbol and a SELL of it
\* at a higher price, and after the updates of both.
C35_Witness ==
    /\ phase = "done"
    /\ Cardinality(UpdatesOfMetrics) = 2
    /\ PerformanceMetrics_report(metrics).total_trades = 2
    /\ \E i, j \in FillsOfMetrics :
          /\ i < j
          /\ dispatched[i].symbol = dispatched[j].symbol
          /\ dispatched[i].direction = "BUY"
          /\ dispatched[j].direction = "SELL"
          /\ dispatched[j].fill_price > dispatched[i].fill_price

----------------------------------------------------------------------------
(* The cash of the tracker against its realized P&L (SpecTracker). *)

\* The commissions of the fills that the PortfolioTracker has handled.
CommissionsPaid ==
    SumOver(HandledBy("PortfolioTracker._on_fill"),
            [i \in DOMAIN dispatched |->
                FInt(IF dispatched[i].kind = "FillEvent" THEN dispatched[i].commission
                     ELSE 0)])

\* The cost of the open positions at their average cost, and the realized
\* P&L of all symbols.
CostOfPositions ==
    SumOver(DOMAIN pt.positions,
            [s \in DOMAIN pt.positions |->
                FMul(Get(pt.avg_cost, s, FInt(0)), FInt(pt.positions[s]))])
TotalRealized == SumOver(DOMAIN pt.realized_pnl, pt.realized_pnl)

\* C36: after any sequence of BUY and SELL fills, long or short, cash plus
\* the sum over the symbols of avg_cost x position is starting_cash plus the
\* total realized P&L minus the commissions paid; so with every position at
\* 0, cash is starting_cash plus realized P&L minus commissions.
C36_CashIsStartPlusRealizedLessCommissions ==
    FAdd(FInt(pt.cash), CostOfPositions)
        = FSub(FAdd(FInt(metrics.starting_equity), TotalRealized), CommissionsPaid)

----------------------------------------------------------------------------
(* The pipeline fed one bar at a time: the caller publishes a bar to the   *)
(* wired bus, runs the bus until its queue is empty, and only then         *)
(* publishes the next bar.                                                 *)

\* The most bars the caller publishes one at a time.
MaxStepBars == 2

\* bus.publish(bar) by the caller, on a drained bus.
StepPublishesBar ==
    /\ phase = "feed"
    /\ queue = <<>>
    /\ Len(Bars(published)) < MaxStepBars
    /\ \E sym \in Symbols, close \in Closes :
          EventBus_publish(MarketDataEvent(sym, Len(Bars(published)) + 1, close))
    /\ UNCHANGED <<handlers, loop, dispatched, phase, om, risk, ex, pt, metrics,
                   delivered, subscriptions, strategy, draws>>

\* bus.run() by the caller, after the bar.
StepRuns ==
    /\ phase = "feed"
    /\ queue # <<>>
    /\ EventBus_run_enter(NoLimit)
    /\ phase' = "run"
    /\ UNCHANGED <<queue, handlers, published, dispatched, om, risk, ex, pt, metrics,
                   delivered, subscriptions, strategy, draws>>

NextStepwise ==
    \/ StepPublishesBar
    \/ StepRuns
    \/ EventBus_run_dispatch
    \/ BusRunReturns

SpecStepwise == Init /\ [][NextStepwise]_vars

\* The fills, the approvals and the vetoes published so far.
FillsMade == Places(published, {"FillEvent"})
VetoesMade == Places(published, {"RiskVetoEvent"})
ApprovalsDispatched == Places(dispatched, {"ApprovedOrderEvent"})

\* This step dispatches an event of an order that is vetoed: the OrderEvent
\* for which the RiskManager publishes the veto, or the RiskVetoEvent.
DispatchOfVetoedOrder ==
    /\ Len(dispatched') = Len(dispatched) + 1
    /\ Head(queue).kind \in {"OrderEvent", "RiskVetoEvent"}
    /\ \E v \in Places(published', {"RiskVetoEvent"}) :
          published'[v].order_id = Head(queue).order_id

\* C37: every FillEvent has the order_id of an ApprovedOrderEvent that was
\* dispatched before the fill was made, no two fills have the same order_id,
\* no fill has the order_id of a RiskVetoEvent, and the dispatch of a vetoed
\* order and of its veto leaves the cash, the positions, the average costs
\* and the realized P&L of the tracker as they were.
C37_FillsOnlyForApprovedOrders ==
    /\ [](/\ \A i \in FillsMade :
              \E j \in ApprovalsDispatched :
                  dispatched[j].order_id = published[i].order_id
          /\ \A i, j \in FillsMade :
              i # j => published[i].order_id # published[j].order_id
          /\ \A i \in FillsMade, v \in VetoesMade :
              published[i].order_id # published[v].order_id)
    /\ [][DispatchOfVetoedOrder =>
            /\ pt'.cash = pt.cash /\ pt'.positions = pt.positions
            /\ pt'.avg_cost = pt.avg_cost /\ pt'.realized_pnl = pt.realized_pnl]_vars

\* C37, witness: a BUY was filled, a later BUY of the same symbol was vetoed
\* and its veto dispatched, and the position is that of the one fill.
C37_Witness ==
    /\ queue = <<>>
    /\ \E i \in Places(dispatched, {"FillEvent"}),
          v \in Places(dispatched, {"RiskVetoEvent"}) :
          /\ i < v
          /\ dispatched[i].symbol = dispatched[v].symbol
          /\ dispatched[i].direction = "BUY"
          /\ Get(pt.positions, dispatched[v].symbol, 0) = dispatched[i].quantity

\* The RiskManager is about to handle an OrderEvent.
OrderAtRiskManager ==
    loop.active /\ queue # <<>> /\ Head(queue).kind = "OrderEvent"

\* C38: when every bar is published to a drained bus, which is then run
\* until its queue is empty, the RiskManager handles each OrderEvent with a
\* shadow position of the order's symbol equal to the tracker's position,
\* and no symbol's position ever exceeds max_position in size.
C38_RiskSeesActualPosition ==
    /\ OrderAtRiskManager =>
          Get(risk.positions, Head(queue).symbol, 0)
            = Get(pt.positions, Head(queue).symbol, 0)
    /\ \A sym \in Symbols : Abs(Get(pt.positions, sym, 0)) <= risk.max_position

\* C38, witness: the RiskManager is about to handle a BUY of a symbol whose
\* position is at max_position, and above 0.
C38_Witness ==
    /\ OrderAtRiskManager
    /\ Head(queue).direction = "BUY"
    /\ Get(pt.positions, Head(queue).symbol, 0) = risk.max_position
    /\ risk.max_position > 0

----------------------------------------------------------------------------
(* The RiskManager and the tracker after the run of the batch pipeline     *)
(* (Spec).                                                                 *)

\* The PortfolioUpdateEvents published so far.
UpdatesMade == Places(published, {"PortfolioUpdateEvent"})

\* C39: when run() has returned with an empty queue, the RiskManager's
\* shadow position of every symbol is the tracker's position, its current
\* equity is the equity of the last PortfolioUpdateEvent published (the
\* starting equity if there is none), and its peak equity is not below its
\* current equity.
C39_RiskAgreesWithTrackerAfterRun ==
    (phase = "done" /\ ~loop.active /\ queue = <<>>) =>
        /\ \A sym \in Symbols :
              Get(risk.positions, sym, 0) = Get(pt.positions, sym, 0)
        /\ risk.current_equity
              = IF UpdatesMade = {} THEN metrics.starting_equity
                ELSE published[Last(UpdatesMade)].equity
        /\ risk.peak_equity >= risk.current_equity

\* C39, witness: run() has returned after two fills of one symbol that leave
\* a position beyond max_position, with the equity below its peak.
C39_Witness ==
    /\ phase = "done" /\ ~loop.active /\ queue = <<>>
    /\ Cardinality(UpdatesMade) = 2
    /\ \E sym \in Symbols : Abs(Get(pt.positions, sym, 0)) > risk.max_position
    /\ risk.peak_equity > risk.current_equity

----------------------------------------------------------------------------
(* The end of the run of the batch pipeline: BacktestEngine.run is one     *)
(* thread that calls feed.emit, then bus.run, then goes on, so that each   *)
(* of these steps is taken once it can be.                                 *)

\* The most bars the feed publishes.
MaxFedBars == 2

\* The events a bar can lead to, itself included: the kinds of the pipeline
\* with the two answers of the RiskManager counted as one.
EventsPerBar == Layer("PortfolioUpdateEvent")

\* feed.emit(bus), one bar of it.
FeedEmitsBar ==
    /\ phase = "feed"
    /\ Len(Bars(published)) < MaxFedBars
    /\ \E sym \in Symbols, close \in Closes :
          EventBus_publish(MarketDataEvent(sym, Len(Bars(published)) + 1, close))
    /\ UNCHANGED <<handlers, loop, dispatched, phase, om, risk, ex, pt, metrics,
                   delivered, subscriptions, strategy, draws>>

NextTerminates ==
    \/ FeedEmitsBar
    \/ EngineRun
    \/ EventBus_run_dispatch
    \/ EngineDone

\* A turn of the while loop of run(): the head of the queue is dispatched.
\* The steps that change dispatched this way are those of
\* EventBus_run_dispatch, and they are enabled in the same states, the
\* handlers being total.
RunTurn ==
    /\ loop.active /\ queue # <<>> /\ ~LimitReached
    /\ dispatched' = Append(dispatched, Head(queue))

\* The engine thread is never suspended for ever: bus.run() is called once
\* the feed is through, its loop takes its next turn while an event waits,
\* and run() returns once the queue is empty.
SpecTerminates ==
    /\ Init /\ [][NextTerminates]_vars
    /\ WF_vars(EngineRun) /\ WF_dispatched(RunTurn) /\ WF_vars(EngineDone)

\* This step dispatches an event and publishes nothing, or one event of the
\* layer below that of the dispatched one.
PublishesAtMostOneDownstream ==
    Len(dispatched') = Len(dispatched) + 1 =>
        \/ published' = published
        \/ /\ Len(published') = Len(published) + 1
           /\ SubSeq(published', 1, Len(published)) = published
           /\ Layer(published'[Len(published')].kind) = Layer(Head(queue).kind) + 1

\* C40: for the n bars that the feed has published, run() comes to return
\* with an empty queue, having dispatched at most 6n events; every dispatch
\* publishes at most one event, of the kind after the dispatched one in the
\* pipeline, never of a kind before it.
C40_RunEndsWithinSixEventsPerBar ==
    /\ [](Len(published) <= EventsPerBar * Len(Bars(published)))
    /\ [][PublishesAtMostOneDownstream]_vars
    /\ <>(/\ phase = "done" /\ ~loop.active /\ queue = <<>>
          /\ Len(dispatched) <= EventsPerBar * Len(Bars(published)))

\* C40, witness: run() has returned after two bars that each led to a fill
\* and its update: 6 events a bar were dispatched.
C40_Witness ==
    /\ phase = "done" /\ queue = <<>>
    /\ Len(Bars(published)) = 2
    /\ Len(dispatched) = EventsPerBar * Len(Bars(published))

============================================================================
